---- MODULE Spec2Model ----
\* Verification model of the Zephyr compiler core:
\*   - the constraint solver of src/src/mir/type_check.rs (TypeChecker::check)
\*   - the identifier store of src/src/hir/store.rs (Store<I, T>)
\*   - the lowering of src/src/mir/ast_to_mir.rs (MIRProducer::reduce) and the
\*     pipeline drivers of src/src/hir/mod.rs and src/src/mir/mod.rs
\*   - the assembly scanner of src/zephyr/src/ast/asm_scan.rs (Scanner::scan)
EXTENDS Integers, Sequences, FiniteSets

VARIABLES
    \* ---- TypeChecker::check ----
    type_vars,        \* TypeVarStore: type-variable id -> sorted candidate list
    constraints,      \* ConstraintStore: the constraints in emission order
    input_vars,       \* prog.types as handed to check (history of the input)
    pc,               \* position inside check: "loop", "sweep", "done"
    idx,              \* position of the `for constr in &constraints` loop
    making_progress,  \* the local of the same name in check
    errors,           \* diagnostics recorded in the error handler
    store,            \* TypeStore built by build_store (sequence of put types)
    outcome,          \* per type variable: the type build_store put, or NoType
    emptied,          \* the Equality constraints (positions in the list) whose
                      \* application left a candidate list empty (history)
    \* ---- Store<I, T> ----
    stores,           \* store slot -> [mod_id, counter, data, merged_mods, alive]
    returned,         \* store slot -> sequence of ids returned by fresh_id
    last,             \* the last Store operation performed and its result
    panicked,         \* a Store operation panicked
    \* ---- to_hir / to_mir and MIRProducer::reduce ----
    driver,           \* the driver that runs: "to_hir" or "to_mir"
    ppc,              \* position inside the driver
    sink,             \* the errors reported to the ErrorHandler
    entered,          \* the passes entered so far (history)
    prog,             \* the typed program handed to reduce
    fun_idx,          \* position of the `for fun in prog.funs` loop
    bb_id,            \* State.bb_id
    funs,             \* the functions pushed by reduce
    \* ---- asm Scanner::scan ----
    code,             \* Scanner.code: the characters of the file
    start,            \* Scanner.start (0-based, as in the source)
    current,          \* Scanner.current (0-based)
    stmt_ender,       \* Scanner.stmt_ender
    tokens,           \* the local `tokens` of scan
    reports,          \* the locations and messages handed to err.report
    spc               \* position inside scan: "loop", "done", "panic"

scvars == <<code, start, current, stmt_ender, tokens, reports, spc>>
tcvars == <<type_vars, constraints, input_vars, pc, idx, making_progress,
            errors, store, outcome, emptied>>
stvars == <<stores, returned, last, panicked>>
lwvars == <<driver, ppc, sink, entered, prog, fun_idx, bb_id, funs>>
vars == <<type_vars, constraints, input_vars, pc, idx, making_progress,
          errors, store, outcome, emptied, stores, returned, last, panicked,
          driver, ppc, sink, entered, prog, fun_idx, bb_id, funs,
          code, start, current, stmt_ender, tokens, reports, spc>>

\* ------------------------------------------------------------------------
\* Bounds of the model
\* ------------------------------------------------------------------------
NumTypeVars == 3     \* type variables in the input store
MaxConstrs == 2      \* constraints in the input list
MaxCands == 2        \* candidates in an input candidate list
NumStores == 3       \* Store values created
MaxOps == 4          \* Store operations in one run
CounterBits == 2     \* modelled width of the u32 counter and of a ModId
MaxExprDepth == 2    \* nesting depth of the expressions handed to reduce
MaxArgs == 2         \* arguments of a direct call
MaxNest == 2         \* nesting depth of while and if statements
MaxBlockLen == 1     \* statements in a nested block
LitBits == 2         \* modelled width of i32; i64 and u64 have twice as many

\* ------------------------------------------------------------------------
\* Types (super::types::Type): variants in declaration order, which is the
\* total order the sorted candidate lists use.
\* ------------------------------------------------------------------------
Any == 0
I32 == 4
I64 == 5
FunI32 == 8          \* Fun([], [I32])
FunPair == 9         \* Fun([], [I32, I64]): a function with two return values

Types == {Any, I32, I64, FunI32, FunPair}
\* what build_store records for a type variable it puts no type for
NoType == 0 - 1

IsFun(t) == t \in {FunI32, FunPair}
\* the ret_t of Type::Fun(_, ret_t)
RetTypes(t) == IF t = FunI32 THEN <<I32>>
               ELSE IF t = FunPair THEN <<I32, I64>>
               ELSE <<>>

\* The id of the canonical integer type variable and its candidate list
T_ID_INTEGER == 1
IntegerCandidates == <<I32, I64>>

TypeVarIds == 1..NumTypeVars

\* ------------------------------------------------------------------------
\* Inputs: sorted candidate lists and constraint lists
\* ------------------------------------------------------------------------
Min(S) == CHOOSE x \in S : \A y \in S : x <= y

RECURSIVE SortedSeq(_)
SortedSeq(S) == IF S = {} THEN <<>>
                ELSE <<Min(S)>> \o SortedSeq(S \ {Min(S)})

CandidateLists ==
    {SortedSeq(S) : S \in {X \in SUBSET Types : Cardinality(X) <= MaxCands}}

\* TypeConstraint: Equality(a, b), Included(a, b), Return(a, b)
Constraints == [kind : {"Equality", "Included", "Return"},
                a : TypeVarIds, b : TypeVarIds]

ConstraintLists == UNION {[1..n -> Constraints] : n \in 0..MaxConstrs}

\* ------------------------------------------------------------------------
\* Error handler: the diagnostics reported so far, as the set of the distinct
\* (message, location) reports: a sweep that repeats a report adds nothing.
\* The location of a type variable is modelled by its id, report_line(0, ..)
\* by 0.
\* ------------------------------------------------------------------------
Diag(msg, loc) == [msg |-> msg, loc |-> loc]

\* ------------------------------------------------------------------------
\* TypeChecker::constr_equality
\* ------------------------------------------------------------------------
StartsWithAny(t) == Len(t) > 0 /\ t[1] = Any

\* the merge loop of constr_equality: [t, progress]
RECURSIVE EqualityMerge(_, _, _, _, _, _)
EqualityMerge(t_1, t_2, idx_1, idx_2, t, progress) ==
    IF idx_1 <= Len(t_1) /\ idx_2 <= Len(t_2)
    THEN IF t_1[idx_1] < t_2[idx_2]
         THEN EqualityMerge(t_1, t_2, idx_1 + 1, idx_2, t, TRUE)
         ELSE IF t_1[idx_1] > t_2[idx_2]
         THEN EqualityMerge(t_1, t_2, idx_1, idx_2 + 1, t, TRUE)
         ELSE EqualityMerge(t_1, t_2, idx_1 + 1, idx_2 + 1,
                            Append(t, t_1[idx_1]), progress)
    ELSE [t |-> t, progress |-> progress]

\* The result of a constraint: the new store, the progress flag and the
\* diagnostics reported.
Result(tv, progress, errs) == [vars |-> tv, progress |-> progress, errs |-> errs]

\* constr_equality without the report for an empty list
constr_equality_no_report(t_id_1, t_id_2, tv) ==
    LET t_1 == tv[t_id_1]
        t_2 == tv[t_id_2]
    IN  IF StartsWithAny(t_1)
        THEN IF StartsWithAny(t_2)
             THEN Result(tv, FALSE, {})
             ELSE Result([tv EXCEPT ![t_id_1] = t_2], TRUE, {})
        ELSE IF StartsWithAny(t_2)
        THEN Result([tv EXCEPT ![t_id_2] = t_1], TRUE, {})
        ELSE IF Len(t_1) = 0 \/ Len(t_2) = 0
        THEN Result(tv, FALSE, {})
        ELSE LET m == EqualityMerge(t_1, t_2, 1, 1, <<>>, Len(t_1) # Len(t_2))
             IN  Result([tv EXCEPT ![t_id_1] = m.t, ![t_id_2] = m.t],
                        m.progress, {})

\* constr_equality with the progress flag of the merge starting at false,
\* whatever the lengths of the two lists
constr_equality_merge_only(t_id_1, t_id_2, tv) ==
    LET t_1 == tv[t_id_1]
        t_2 == tv[t_id_2]
    IN  IF StartsWithAny(t_1)
        THEN IF StartsWithAny(t_2)
             THEN Result(tv, FALSE, {})
             ELSE Result([tv EXCEPT ![t_id_1] = t_2], TRUE, {})
        ELSE IF StartsWithAny(t_2)
        THEN Result([tv EXCEPT ![t_id_2] = t_1], TRUE, {})
        ELSE IF Len(t_1) = 0 \/ Len(t_2) = 0
        THEN Result(tv, FALSE,
                    {Diag("Could not infer a type satisfying constraints", t_id_1)})
        ELSE LET m == EqualityMerge(t_1, t_2, 1, 1, <<>>, FALSE)
             IN  Result([tv EXCEPT ![t_id_1] = m.t, ![t_id_2] = m.t],
                        m.progress, {})

constr_equality(t_id_1, t_id_2, tv) ==
    LET t_1 == tv[t_id_1]
        t_2 == tv[t_id_2]
    IN  IF StartsWithAny(t_1)
        THEN IF StartsWithAny(t_2)
             THEN Result(tv, FALSE, {})
             ELSE Result([tv EXCEPT ![t_id_1] = t_2], TRUE, {})
        ELSE IF StartsWithAny(t_2)
        THEN Result([tv EXCEPT ![t_id_2] = t_1], TRUE, {})
        ELSE IF Len(t_1) = 0 \/ Len(t_2) = 0
        THEN Result(tv, FALSE,
                    {Diag("Could not infer a type satisfying constraints", t_id_1)})
        ELSE LET m == EqualityMerge(t_1, t_2, 1, 1, <<>>, Len(t_1) # Len(t_2))
             IN  Result([tv EXCEPT ![t_id_1] = m.t, ![t_id_2] = m.t],
                        m.progress, {})

\* ------------------------------------------------------------------------
\* TypeChecker::constr_included
\* ------------------------------------------------------------------------
RECURSIVE IncludedMerge(_, _, _, _, _, _)
IncludedMerge(t_1, t_2, idx_1, idx_2, t, progress) ==
    IF idx_1 <= Len(t_1) /\ idx_2 <= Len(t_2)
    THEN IF t_1[idx_1] < t_2[idx_2]
         THEN IncludedMerge(t_1, t_2, idx_1 + 1, idx_2, t, TRUE)
         ELSE IF t_1[idx_1] > t_2[idx_2]
         THEN IncludedMerge(t_1, t_2, idx_1, idx_2 + 1, t, progress)
         ELSE IncludedMerge(t_1, t_2, idx_1 + 1, idx_2 + 1,
                            Append(t, t_1[idx_1]), progress)
    ELSE [t |-> t, progress |-> progress]

\* constr_included with a's list replaced by b's whenever they differ, not
\* only when a's list starts with Any
constr_included_replace(t_id_1, t_id_2, tv) ==
    Result([tv EXCEPT ![t_id_1] = tv[t_id_2]], tv[t_id_1] # tv[t_id_2], {})

constr_included(t_id_1, t_id_2, tv) ==
    LET t_1 == tv[t_id_1]
        t_2 == tv[t_id_2]
    IN  IF StartsWithAny(t_1)
        THEN IF StartsWithAny(t_2)
             THEN Result(tv, FALSE, {})
             ELSE Result([tv EXCEPT ![t_id_1] = t_2], TRUE, {})
        ELSE LET m == IncludedMerge(t_1, t_2, 1, 1, <<>>, FALSE)
             IN  Result([tv EXCEPT ![t_id_1] = m.t], m.progress, {})

\* ------------------------------------------------------------------------
\* TypeChecker::constr_return
\* ------------------------------------------------------------------------
\* constr_return reporting progress whenever the return type is a candidate,
\* also when the list already is that singleton
constr_return_always_progress(t_id_fun, t_id, tv) ==
    LET t_fun == tv[t_id_fun]
        ts == tv[t_id]
    IN  IF Len(t_fun) # 1 \/ ~IsFun(t_fun[1]) \/ Len(RetTypes(t_fun[1])) # 1
        THEN Result(tv, FALSE, {Diag("Return type constraint", t_id_fun)})
        ELSE LET ret_t == RetTypes(t_fun[1])[1]
             IN  IF \E i \in 1..Len(ts) : ts[i] = ret_t
                 THEN Result([tv EXCEPT ![t_id] = <<ret_t>>], TRUE, {})
                 ELSE Result(tv, FALSE, {Diag("Return value has wrong type", t_id)})

constr_return(t_id_fun, t_id, tv) ==
    LET t_fun == tv[t_id_fun]
        ts == tv[t_id]
    IN  IF Len(t_fun) # 1
        THEN Result(tv, FALSE,
                    {Diag("Return type constraint with ambiguous fun type", t_id_fun)})
        ELSE IF ~IsFun(t_fun[1])
        THEN Result(tv, FALSE,
                    {Diag("Return type constraint used on a non function type", t_id_fun)})
        ELSE IF Len(RetTypes(t_fun[1])) # 1
        THEN Result(tv, FALSE,
                    {Diag("Function returning multiple values are not yet supported", t_id_fun)})
        ELSE LET ret_t == RetTypes(t_fun[1])[1]
             IN  IF \E i \in 1..Len(ts) : ts[i] = ret_t
                 THEN Result([tv EXCEPT ![t_id] = <<ret_t>>], Len(ts) > 1, {})
                 ELSE Result(tv, FALSE, {Diag("Return value has wrong type", t_id)})

\* ------------------------------------------------------------------------
\* TypeChecker::apply_constr
\* ------------------------------------------------------------------------
apply_constr(constr, tv) ==
    IF constr.kind = "Equality" THEN constr_equality(constr.a, constr.b, tv)
    ELSE IF constr.kind = "Included" THEN constr_included(constr.a, constr.b, tv)
    ELSE constr_return(constr.a, constr.b, tv)

\* ------------------------------------------------------------------------
\* TypeChecker::build_store
\* ------------------------------------------------------------------------
\* what build_store does with one type variable: the type it puts (NoType when
\* it reports instead) and the diagnostics it reports
\* build_var defaulting an integer list to its first candidate instead of I64
build_var_first(types, integers) ==
    IF Len(types) = 0
    THEN [t |-> NoType,
          errs |-> {Diag("Could not find a type satisfying constraint", 0)}]
    ELSE IF Len(types) = 1 \/ types = integers
    THEN [t |-> types[1], errs |-> {}]
    ELSE [t |-> NoType, errs |-> {Diag("Could not infer type", 0)}]

build_var(types, integers) ==
    IF Len(types) = 1
    THEN [t |-> types[1], errs |-> {}]
    ELSE IF Len(types) = 0
    THEN [t |-> NoType,
          errs |-> {Diag("Could not find a type satisfying constraint", 0)}]
    ELSE IF types = integers
    THEN [t |-> I64, errs |-> {}]
    ELSE [t |-> NoType, errs |-> {Diag("Could not infer type", 0)}]

RECURSIVE PutAll(_, _)
\* TypeStore::put for every type variable that got a type, in id order
PutAll(out, i) ==
    IF i > Len(out) THEN <<>>
    ELSE (IF out[i] = NoType THEN <<>> ELSE <<out[i]>>) \o PutAll(out, i + 1)

build_store(var_store) ==
    LET integers == var_store[T_ID_INTEGER]
        out == [v \in TypeVarIds |-> build_var(var_store[v], integers).t]
    IN  [store |-> PutAll(out, 1),
         outcome |-> out,
         errs |-> UNION {build_var(var_store[v], integers).errs : v \in TypeVarIds}]

\* ------------------------------------------------------------------------
\* TypeChecker::check, one step per loop test, constraint and build_store
\* ------------------------------------------------------------------------
StoreIdle ==
    /\ stores = <<>>
    /\ returned = <<>>
    /\ last = [op |-> "none", recv |-> 0, arg |-> 0, id |-> 0 - 1, ok |-> TRUE, n |-> 0]
    /\ panicked = FALSE

\* no driver runs
PipeIdle ==
    /\ driver = "none"
    /\ ppc = "idle"
    /\ sink = {}
    /\ entered = <<>>
    /\ prog = <<>>
    /\ fun_idx = 1
    /\ bb_id = 0
    /\ funs = <<>>

\* no scanner runs
ScanIdle ==
    /\ code = <<>>
    /\ start = 0
    /\ current = 0
    /\ stmt_ender = FALSE
    /\ tokens = <<>>
    /\ reports = {}
    /\ spc = "idle"

CheckInit ==
    /\ type_vars \in {tv \in [TypeVarIds -> CandidateLists] :
                          tv[T_ID_INTEGER] = IntegerCandidates}
    /\ constraints \in ConstraintLists
    /\ input_vars = type_vars
    /\ pc = "loop"
    /\ idx = 1
    /\ making_progress = TRUE
    /\ errors = {}
    /\ store = <<>>
    /\ outcome = [v \in TypeVarIds |-> NoType]
    /\ emptied = {}

\* the constraint is an Equality and tv, the store after its application,
\* has an empty candidate list for one of its two sides
LeavesEmpty(constr, tv) ==
    constr.kind = "Equality" /\ (tv[constr.a] = <<>> \/ tv[constr.b] = <<>>)

\* a sweep that starts without `making_progress = false`
SweepStart_no_reset ==
    /\ pc = "loop"
    /\ making_progress
    /\ idx' = 1
    /\ pc' = "sweep"
    /\ UNCHANGED <<type_vars, constraints, input_vars, making_progress, errors,
                   store, outcome, emptied>>
    /\ UNCHANGED <<stvars, lwvars, scvars>>

\* `while making_progress {`: enter one more sweep
SweepStart ==
    /\ pc = "loop"
    /\ making_progress
    /\ making_progress' = FALSE
    /\ idx' = 1
    /\ pc' = "sweep"
    /\ UNCHANGED <<type_vars, constraints, input_vars, errors, store, outcome, emptied>>
    /\ UNCHANGED <<stvars, lwvars, scvars>>

\* one iteration of `for constr in &constraints`
ApplyConstr ==
    /\ pc = "sweep"
    /\ idx <= Len(constraints)
    /\ LET r == apply_constr(constraints[idx], type_vars)
       IN  /\ type_vars' = r.vars
           /\ making_progress' = (r.progress \/ making_progress)
           /\ errors' = errors \cup r.errs
           /\ emptied' = IF LeavesEmpty(constraints[idx], r.vars)
                          THEN emptied \cup {idx} ELSE emptied
    /\ idx' = idx + 1
    /\ UNCHANGED <<constraints, input_vars, pc, store, outcome>>
    /\ UNCHANGED <<stvars, lwvars, scvars>>

\* the for loop is over: back to the test of the while loop
SweepEnd ==
    /\ pc = "sweep"
    /\ idx > Len(constraints)
    /\ pc' = "loop"
    /\ UNCHANGED <<type_vars, constraints, input_vars, idx, making_progress,
                   errors, store, outcome, emptied>>
    /\ UNCHANGED <<stvars, lwvars, scvars>>

\* the while loop is left: build_store and return the TypedProgram
BuildStore ==
    /\ pc = "loop"
    /\ ~making_progress
    /\ LET r == build_store(type_vars)
       IN  /\ store' = r.store
           /\ outcome' = r.outcome
           /\ errors' = errors \cup r.errs
    /\ pc' = "done"
    /\ UNCHANGED <<type_vars, constraints, input_vars, idx, making_progress, emptied>>
    /\ UNCHANGED <<stvars, lwvars, scvars>>

Init == CheckInit /\ StoreIdle /\ PipeIdle /\ ScanIdle
Next == SweepStart \/ ApplyConstr \/ SweepEnd \/ BuildStore
Spec == Init /\ [][Next]_vars

\* ========================================================================
\* Store<I, T> (src/src/hir/store.rs)
\* ========================================================================
RECURSIVE Pow2(_)
Pow2(n) == IF n = 0 THEN 1 ELSE 2 * Pow2(n - 1)

\* u32::MAX, the largest counter, and the number of values of an Id (u64), in
\* the modelled widths
CounterMax == Pow2(CounterBits) - 1
IdModulus == Pow2(2 * CounterBits)

StoreIds == 1..NumStores
ModIds == {1, 2}
Items == {"a", "b"}
NoId == 0 - 1

\* Store::new
new(mod_id) ==
    [mod_id |-> mod_id, counter |-> 0, data |-> {}, merged_mods |-> {},
     alive |-> TRUE]

\* `x << 32` on a u64, in the modelled widths
Shl(x) == (x * Pow2(CounterBits)) % IdModulus

\* the module id added to the counter without the shift
MakeId_noshift(mod_id, counter) == (counter + mod_id) % IdModulus

\* the Id of a module id and a counter value, and its two halves
MakeId(mod_id, counter) == (counter + Shl(mod_id)) % IdModulus
IdMod(id) == id \div Pow2(CounterBits)
IdCounter(id) == id % Pow2(CounterBits)

\* HashMap::insert on the table, a set of <<id, item>> entries with one entry
\* per id
MapInsert(data, id, item) == {e \in data : e[1] # id} \cup {<<id, item>>}
Keys(data) == {e[1] : e \in data}
\* HashMap::extend keeping the receiver's entry on a common id
MapExtend_keep(data, other) == data \cup {e \in other : e[1] \notin Keys(data)}

\* HashMap::extend: the entries of other replace those with the same id
MapExtend(data, other) == {e \in data : e[1] \notin Keys(other)} \cup other

\* Store::get: the item of id, None when there is none
None == "None"
get(self, id) ==
    IF id \in Keys(self.data)
    THEN (CHOOSE e \in self.data : e[1] = id)[2]
    ELSE None

\* fresh_id with a wrapping increment of the counter
fresh_id_wrapping(self) ==
    [panic |-> FALSE, id |-> MakeId(self.mod_id, self.counter),
     self |-> [self EXCEPT !.counter = (self.counter + 1) % Pow2(CounterBits)]]

\* Store::fresh_id: [panic, id, self]
fresh_id(self) ==
    LET id == MakeId(self.mod_id, self.counter)
    IN  IF self.counter + 1 > CounterMax
        THEN [panic |-> TRUE, id |-> NoId, self |-> self]
        ELSE [panic |-> FALSE, id |-> id,
              self |-> [self EXCEPT !.counter = self.counter + 1]]

\* add that stores the item but loses the advanced counter
add_stale(self, item) ==
    LET f == fresh_id(self)
    IN  IF f.panic THEN f
        ELSE [panic |-> FALSE, id |-> f.id,
              self |-> [self EXCEPT !.data = MapInsert(self.data, f.id, item)]]

\* Store::add: [panic, id, self]
add(self, item) ==
    LET f == fresh_id(self)
    IN  IF f.panic THEN f
        ELSE [panic |-> FALSE, id |-> f.id,
              self |-> [f.self EXCEPT !.data = MapInsert(f.self.data, f.id, item)]]

\* Store::insert
insert(self, id, item) == [self EXCEPT !.data = MapInsert(self.data, id, item)]

\* extend without the check of the merged set
extend_unchecked(self, other) ==
    IF other.mod_id = self.mod_id
    THEN [panic |-> TRUE, self |-> self]
    ELSE [panic |-> FALSE,
          self |-> [self EXCEPT !.data = MapExtend(self.data, other.data),
                                !.merged_mods = self.merged_mods \cup {other.mod_id}]]

\* Store::extend: [panic, self]
extend(self, other) ==
    IF other.mod_id = self.mod_id
    THEN [panic |-> TRUE, self |-> self]
    ELSE IF other.mod_id \in self.merged_mods
    THEN [panic |-> TRUE, self |-> self]
    ELSE [panic |-> FALSE,
          self |-> [self EXCEPT !.data = MapExtend(self.data, other.data),
                                !.merged_mods = self.merged_mods \cup {other.mod_id}]]

\* the closures handed to transmute: item -> the new item, or None to drop it
TransFuns ==
    {[i \in Items |-> IF i = "a" THEN None ELSE "a"],
     [i \in Items |-> "b"]}

\* transmute that builds its result with Store::new, counter at zero
transmute_reset(self, fun) ==
    [self EXCEPT !.data = {<<e[1], fun[e[2]]>> : e \in {d \in self.data : fun[d[2]] # None}},
                 !.counter = 0]

\* Store::transmute: the entries fun maps to a value, under their old ids;
\* mod_id, counter and merged_mods are moved over
transmute(self, fun) ==
    [self EXCEPT !.data = {<<e[1], fun[e[2]]>> : e \in {d \in self.data : fun[d[2]] # None}}]

\* the ids a caller may hand to insert: the first id of every module, whether
\* the store has generated it or not
InsertIds == {MakeId(m, 0) : m \in ModIds}

CheckIdle ==
    /\ type_vars = <<>>
    /\ constraints = <<>>
    /\ input_vars = <<>>
    /\ pc = "idle"
    /\ idx = 1
    /\ making_progress = FALSE
    /\ errors = {}
    /\ store = <<>>
    /\ outcome = <<>>
    /\ emptied = {}

Op(op, recv, arg, id, ok) ==
    [op |-> op, recv |-> recv, arg |-> arg, id |-> id, ok |-> ok, n |-> last.n + 1]

\* Store::new for every store, before any operation
StoresNew ==
    /\ stores \in [StoreIds -> {new(m) : m \in ModIds}]
    /\ returned = [s \in StoreIds |-> <<>>]
    /\ last = [op |-> "new", recv |-> 0, arg |-> 0, id |-> NoId, ok |-> TRUE, n |-> 0]
    /\ panicked = FALSE

CanAct(s) == ~panicked /\ last.n < MaxOps /\ stores[s].alive

FreshId(s) ==
    /\ CanAct(s)
    /\ LET r == fresh_id(stores[s])
       IN  /\ stores' = [stores EXCEPT ![s] = r.self]
           /\ returned' = IF r.panic THEN returned
                          ELSE [returned EXCEPT ![s] = Append(@, r.id)]
           /\ panicked' = r.panic
           /\ last' = Op("fresh_id", s, 0, r.id, ~r.panic)
    /\ UNCHANGED <<tcvars, lwvars, scvars>>

Add(s, item) ==
    /\ CanAct(s)
    /\ LET r == add(stores[s], item)
       IN  /\ stores' = [stores EXCEPT ![s] = r.self]
           /\ returned' = IF r.panic THEN returned
                          ELSE [returned EXCEPT ![s] = Append(@, r.id)]
           /\ panicked' = r.panic
           /\ last' = Op("add", s, item, r.id, ~r.panic)
    /\ UNCHANGED <<tcvars, lwvars, scvars>>

Insert(s, id, item) ==
    /\ CanAct(s)
    /\ stores' = [stores EXCEPT ![s] = insert(stores[s], id, item)]
    /\ last' = Op("insert", s, item, id, TRUE)
    /\ UNCHANGED <<returned, panicked>>
    /\ UNCHANGED <<tcvars, lwvars, scvars>>

\* a.extend(b): b is moved into the call and is gone afterwards
Extend(a, b) ==
    /\ CanAct(a)
    /\ a # b
    /\ stores[b].alive
    /\ LET r == extend(stores[a], stores[b])
       IN  /\ stores' = [stores EXCEPT ![a] = r.self, ![b].alive = FALSE]
           /\ panicked' = r.panic
           /\ last' = Op("extend", a, b, NoId, ~r.panic)
    /\ UNCHANGED returned
    /\ UNCHANGED <<tcvars, lwvars, scvars>>

\* s = s.transmute(fun): the store is consumed and its result takes its place
Transmute(s, fun) ==
    /\ CanAct(s)
    /\ stores' = [stores EXCEPT ![s] = transmute(stores[s], fun)]
    /\ last' = Op("transmute", s, fun, NoId, TRUE)
    /\ UNCHANGED <<returned, panicked>>
    /\ UNCHANGED <<tcvars, lwvars, scvars>>

StoreNext ==
    \/ \E s \in StoreIds : FreshId(s)
    \/ \E s \in StoreIds, item \in Items : Add(s, item)
    \/ \E s \in StoreIds, id \in InsertIds, item \in Items : Insert(s, id, item)
    \/ \E a, b \in StoreIds : Extend(a, b)
    \/ \E s \in StoreIds, fun \in TransFuns : Transmute(s, fun)

StoreInit == StoresNew /\ CheckIdle /\ PipeIdle /\ ScanIdle
StoreSpec == StoreInit /\ [][StoreNext]_vars

\* Store::new for every store, each with a module id of its own
StoresDistinct ==
    /\ stores = [s \in StoreIds |-> new(s)]
    /\ returned = [s \in StoreIds |-> <<>>]
    /\ last = [op |-> "new", recv |-> 0, arg |-> 0, id |-> NoId, ok |-> TRUE, n |-> 0]
    /\ panicked = FALSE

\* the stores of distinct modules, used through fresh_id, add, extend and
\* transmute only
OwnNext ==
    \/ \E s \in StoreIds : FreshId(s)
    \/ \E s \in StoreIds, item \in Items : Add(s, item)
    \/ \E a, b \in StoreIds : Extend(a, b)
    \/ \E s \in StoreIds, fun \in TransFuns : Transmute(s, fun)

OwnInit == StoresDistinct /\ CheckIdle /\ PipeIdle /\ ScanIdle
OwnSpec == OwnInit /\ [][OwnNext]_vars

\* the same specification with the fairness of a running program: check is a
\* sequential loop that keeps executing until it returns
LiveSpec == Init /\ [][Next]_vars /\ WF_vars(Next)

\* ------------------------------------------------------------------------
\* MIR (src/src/mir/mir.rs): statements and blocks
\* ------------------------------------------------------------------------
\* a statement is [s, op, n, blk]: the variant, its operator or machine type,
\* its number (local id, block id, function id, constant) and its block
NoBlock == [kind |-> "none", id |-> 0, stmts |-> <<>>, else_stmts |-> <<>>, t |-> "None"]
Stmt(s, op, n) == [s |-> s, op |-> op, n |-> n, blk |-> NoBlock]
Set(l_id) == Stmt("Set", "", l_id)
Get(l_id) == Stmt("Get", "", l_id)
Const(t, val) == Stmt("Const", t, val)
Unop(unop) == Stmt("Unop", unop, 0)
Binop(binop) == Stmt("Binop", binop, 0)
Relop(relop) == Stmt("Relop", relop, 0)
Return == Stmt("Control", "Return", 0)
Br(id) == Stmt("Control", "Br", id)
BrIf(id) == Stmt("Control", "BrIf", id)
Drop == Stmt("Parametric", "Drop", 0)
Call(fun_id) == Stmt("Call", "Direct", fun_id)
StmtBlock(block) == [s |-> "Block", op |-> "", n |-> 0, blk |-> block]
Block(id, stmts, t) ==
    [kind |-> "Block", id |-> id, stmts |-> stmts, else_stmts |-> <<>>, t |-> t]
Loop(id, stmts, t) ==
    [kind |-> "Loop", id |-> id, stmts |-> stmts, else_stmts |-> <<>>, t |-> t]
If(id, then_stmts, else_stmts, t) ==
    [kind |-> "If", id |-> id, stmts |-> then_stmts, else_stmts |-> else_stmts, t |-> t]

\* ------------------------------------------------------------------------
\* MIRProducer (src/src/mir/ast_to_mir.rs)
\* ------------------------------------------------------------------------
\* s is [bb_id, err]: State.bb_id and the errors reported through self.err
\* State::new
StateNew == [bb_id |-> 0, err |-> {}]

\* State::fresh_bb_id: [id, s]
fresh_bb_id(s) == [id |-> s.bb_id, s |-> [s EXCEPT !.bb_id = s.bb_id + 1]]

\* ErrorHandler::report, report_internal, report_no_loc and
\* report_internal_no_loc: the sink holds one more error
report(s, msg) == [s EXCEPT !.err = s.err \cup {msg}]

\* Result<(), String> of the reduce functions together with what they have
\* pushed and the state they leave; panic is an unwrap that failed
Ok(stmts, s) == [ok |-> TRUE, panic |-> FALSE, stmts |-> stmts, s |-> s, err |-> ""]
Err(msg, stmts, s) == [ok |-> FALSE, panic |-> FALSE, stmts |-> stmts, s |-> s, err |-> msg]
Panic(stmts, s) == [ok |-> FALSE, panic |-> TRUE, stmts |-> stmts, s |-> s, err |-> "unwrap"]

\* get_type: the machine type of a resolved type, [ok, t, err]
get_type(t) ==
    IF t \in {"Any", "Bug", "Unit"}
    THEN [ok |-> FALSE, t |-> "", err |-> "Invalid type in MIR generation"]
    ELSE IF t \in {"I32", "I64", "F32", "F64"} THEN [ok |-> TRUE, t |-> t, err |-> ""]
    ELSE IF t = "Bool" THEN [ok |-> TRUE, t |-> "I32", err |-> ""]
    ELSE [ok |-> FALSE, t |-> "", err |-> "Function as a value are not yet implemented"]

\* convert_type: the same table for the types of a signature
convert_type(t) == get_type(t)

ArithOps == {"Plus", "Minus", "Multiply", "Divide", "Remainder"}
CompareOps == {"Equal", "NotEqual", "Less", "Greater", "LessEqual", "GreaterEqual"}
ArithName(binop) ==
    CASE binop = "Plus" -> "Add" [] binop = "Minus" -> "Sub"
      [] binop = "Multiply" -> "Mul" [] binop = "Divide" -> "Div"
      [] binop = "Remainder" -> "Rem"
CompareName(binop) ==
    CASE binop = "Equal" -> "Eq" [] binop = "NotEqual" -> "Ne"
      [] binop = "Less" -> "Lt" [] binop = "Greater" -> "Gt"
      [] binop = "LessEqual" -> "Le" [] binop = "GreaterEqual" -> "Ge"

\* get_binop: [ok, from, op, err] with from in Binop, Relop, Logical
get_binop(binop, t) ==
    IF binop \in ArithOps /\ ~(binop = "Remainder" /\ t \in {"F32", "F64"})
    THEN [ok |-> TRUE, from |-> "Binop", op |-> t \o ArithName(binop), err |-> ""]
    ELSE IF binop \in CompareOps
    THEN [ok |-> TRUE, from |-> "Relop", op |-> t \o CompareName(binop), err |-> ""]
    ELSE IF binop \in {"And", "Or"} /\ t = "I32"
    THEN [ok |-> TRUE, from |-> "Logical", op |-> binop, err |-> ""]
    ELSE [ok |-> FALSE, from |-> "", op |-> "", err |-> "Bad binary operator"]

\* typed expressions (Expr of the typed tree) as [e, op, t, n, args]: the
\* variant, its operator, the resolved type of its t_id (op_t_id for Binary),
\* its number (value, name id, function id) and its operands
EInteger(val, t) == [e |-> "Integer", op |-> "", t |-> t, n |-> val, args |-> <<>>]
EFloat(val, t) == [e |-> "Float", op |-> "", t |-> t, n |-> val, args |-> <<>>]
EBoolean(val) == [e |-> "Boolean", op |-> "", t |-> "Bool", n |-> val, args |-> <<>>]
EVariable(n_id) == [e |-> "Variable", op |-> "", t |-> "", n |-> n_id, args |-> <<>>]
EFunction(fun_id) == [e |-> "Function", op |-> "", t |-> "", n |-> fun_id, args |-> <<>>]
EBinary(expr_left, binop, expr_right, op_t) ==
    [e |-> "Binary", op |-> binop, t |-> op_t, n |-> 0, args |-> <<expr_left, expr_right>>]
EUnary(unop, expr, t) == [e |-> "Unary", op |-> unop, t |-> t, n |-> 0, args |-> <<expr>>]
ECallDirect(fun_id, args) ==
    [e |-> "CallDirect", op |-> "", t |-> "", n |-> fun_id, args |-> args]
ECallIndirect == [e |-> "CallIndirect", op |-> "", t |-> "", n |-> 0, args |-> <<>>]

\* the largest i32 and i64, at the modelled widths of LitBits and 2 * LitBits
I32Max == Pow2(LitBits - 1) - 1
I64Max == Pow2(2 * LitBits - 1) - 1
\* the largest u64 literal value
U64Max == Pow2(2 * LitBits) - 1
\* (*val).try_into() succeeds
Fits(t, val) == IF t = "I32" THEN val <= I32Max ELSE val <= I64Max

\* `?` followed by a push: the statement is pushed when r is Ok
Push(r, stmt) == IF r.ok THEN Ok(Append(r.stmts, stmt), r.s) ELSE r
PushAll(r, more) == IF r.ok THEN Ok(r.stmts \o more, r.s) ELSE r
\* an Err or a panic met while filling another list leaves stmts as it was
Failed(r, stmts) == [r EXCEPT !.stmts = stmts]

RECURSIVE reduce_expr(_, _, _)
RECURSIVE reduce_args(_, _, _)
\* `for arg in args { self.reduce_expr(arg, stmts, s)?; }` from the i-th
\* argument on, r being the result so far
reduce_args(args, i, r) ==
    IF ~r.ok \/ i > Len(args) THEN r
    ELSE reduce_args(args, i + 1, reduce_expr(args[i], r.stmts, r.s))

\* the If block of a logical operator with its two branches exchanged
logical_block_swapped(logical, if_id, right) ==
    IF logical = "And"
    THEN If(if_id, <<Const("I32", 0)>>, right.stmts, "I32")
    ELSE If(if_id, <<Const("I32", 1)>>, right.stmts, "I32")

\* reduce_expr, Logical::And and Logical::Or: the If block built around the
\* statements of the right operand
logical_block(logical, if_id, right) ==
    IF logical = "And"
    THEN If(if_id, right.stmts, <<Const("I32", 0)>>, "I32")
    ELSE If(if_id, <<Const("I32", 1)>>, right.stmts, "I32")

\* reduce_expr, Logical, after the right operand: the left operand is pushed
\* to stmts, then the block
reduce_logical_left(expression, logical, if_id, stmts, right) ==
    IF ~right.ok THEN Failed(right, stmts)
    ELSE Push(reduce_expr(expression.args[1], stmts, right.s),
              StmtBlock(logical_block(logical, if_id, right)))

\* reduce_expr, FromBinop::Logical: a fresh id, then the right operand is
\* lowered into the branch of the block
reduce_logical(expression, logical, stmts, s) ==
    reduce_logical_left(expression, logical, fresh_bb_id(s).id, stmts,
                        reduce_expr(expression.args[2], <<>>, fresh_bb_id(s).s))

\* the Binop and Relop arms lowering the right operand before the left one
reduce_operands_swapped(expression, stmts, s) ==
    reduce_args(<<expression.args[2], expression.args[1]>>, 1, Ok(stmts, s))

\* reduce_expr, FromBinop::Binop and Relop: left operand, then right operand
reduce_operands(expression, stmts, s) ==
    reduce_args(<<expression.args[1], expression.args[2]>>, 1, Ok(stmts, s))

\* reduce_expr, Expr::Binary
reduce_binary(expression, stmts, s) ==
    LET t == get_type(expression.t)
        from_binop == get_binop(expression.op, t.t)
    IN  IF ~t.ok THEN Err(t.err, stmts, s)
        ELSE IF ~from_binop.ok THEN Err(from_binop.err, stmts, s)
        ELSE IF from_binop.from = "Logical"
        THEN reduce_logical(expression, from_binop.op, stmts, s)
        ELSE Push(reduce_operands(expression, stmts, s),
                  Stmt(from_binop.from, from_binop.op, 0))

\* reduce_expr, Expr::Unary: what is pushed or reported before the operand
unary_first(unop, t, stmts, s) ==
    IF unop = "Minus"
    THEN (IF t \in {"I32", "I64"} THEN Ok(Append(stmts, Const(t, 0)), s) ELSE Ok(stmts, s))
    ELSE (IF t = "I32" THEN Ok(Append(stmts, Const("I32", 1)), s)
          ELSE Ok(stmts, report(s, "Not applied to something else than a boolean")))

\* reduce_expr, Expr::Unary: the operator pushed after the operand
unary_stmt(unop, t) ==
    IF unop = "Minus"
    THEN (IF t \in {"I32", "I64"} THEN Binop(t \o "Sub") ELSE Unop(t \o "Neg"))
    ELSE Binop("I32Xor")

\* reduce_expr, Expr::Unary
reduce_unary(expression, stmts, s) ==
    LET t == get_type(expression.t)
    IN  IF ~t.ok THEN Err(t.err, stmts, s)
        ELSE Push(reduce_args(expression.args, 1, unary_first(expression.op, t.t, stmts, s)),
                  unary_stmt(expression.op, t.t))

\* reduce_expr, Literal Integer
reduce_integer(expression, stmts, s) ==
    LET t == get_type(expression.t)
    IN  IF ~t.ok THEN Err(t.err, stmts, s)
        ELSE IF t.t \notin {"I32", "I64"}
        THEN Err("Integer constant of non integer type.", stmts, s)
        ELSE IF ~Fits(t.t, expression.n) THEN Panic(stmts, s)
        ELSE Ok(Append(stmts, Const(t.t, expression.n)), s)

\* reduce_expr, Literal Float
reduce_float(expression, stmts, s) ==
    LET t == get_type(expression.t)
    IN  IF ~t.ok THEN Err(t.err, stmts, s)
        ELSE IF t.t \notin {"F32", "F64"}
        THEN Err("Float constant of non float type.", stmts, s)
        ELSE Ok(Append(stmts, Const(t.t, expression.n)), s)

\* reduce_expr, Expr::CallIndirect: reported, nothing is pushed
reduce_call_indirect(stmts, s) ==
    Ok(stmts, report(s, "Indirect call are not yet supported"))

\* reduce_expr: push the statements that execute the expression
reduce_expr(expression, stmts, s) ==
    CASE expression.e = "Integer" -> reduce_integer(expression, stmts, s)
      [] expression.e = "Float" -> reduce_float(expression, stmts, s)
      [] expression.e = "Boolean" ->
            Ok(Append(stmts, Const("I32", IF expression.n = 1 THEN 1 ELSE 0)), s)
      [] expression.e = "Variable" -> Ok(Append(stmts, Get(expression.n)), s)
      [] expression.e = "Function" ->
            Err("Function as expression are not yet supported.", stmts, s)
      [] expression.e = "Binary" -> reduce_binary(expression, stmts, s)
      [] expression.e = "Unary" -> reduce_unary(expression, stmts, s)
      [] expression.e = "CallDirect" ->
            Push(reduce_args(expression.args, 1, Ok(stmts, s)), Call(expression.n))
      [] expression.e = "CallIndirect" -> reduce_call_indirect(stmts, s)

\* typed statements (S of the typed tree) as [k, n, expr, has_expr, block,
\* else_block, has_else]
NoExpr == [e |-> "none", op |-> "", t |-> "", n |-> 0, args |-> <<>>]
AssignStmt(var, expr) ==
    [k |-> "AssignStmt", n |-> var, expr |-> expr, has_expr |-> TRUE,
     block |-> <<>>, else_block |-> <<>>, has_else |-> FALSE]
LetStmt(var, expr) ==
    [k |-> "LetStmt", n |-> var, expr |-> expr, has_expr |-> TRUE,
     block |-> <<>>, else_block |-> <<>>, has_else |-> FALSE]
ExprStmt(expr) ==
    [k |-> "ExprStmt", n |-> 0, expr |-> expr, has_expr |-> TRUE,
     block |-> <<>>, else_block |-> <<>>, has_else |-> FALSE]
ReturnStmt(expr) ==
    [k |-> "ReturnStmt", n |-> 0, expr |-> expr, has_expr |-> TRUE,
     block |-> <<>>, else_block |-> <<>>, has_else |-> FALSE]
ReturnNone ==
    [k |-> "ReturnStmt", n |-> 0, expr |-> NoExpr, has_expr |-> FALSE,
     block |-> <<>>, else_block |-> <<>>, has_else |-> FALSE]
WhileStmt(expr, block) ==
    [k |-> "WhileStmt", n |-> 0, expr |-> expr, has_expr |-> TRUE,
     block |-> block, else_block |-> <<>>, has_else |-> FALSE]
IfStmt(expr, block) ==
    [k |-> "IfStmt", n |-> 0, expr |-> expr, has_expr |-> TRUE,
     block |-> block, else_block |-> <<>>, has_else |-> FALSE]
IfElseStmt(expr, block, else_block) ==
    [k |-> "IfStmt", n |-> 0, expr |-> expr, has_expr |-> TRUE,
     block |-> block, else_block |-> else_block, has_else |-> TRUE]

RECURSIVE reduce_block_rec(_, _, _)

\* the while arm pushing the Loop without the Block around it
while_block_flat(block_id, loop_id, stmts, loop_r) ==
    IF ~loop_r.ok THEN Failed(loop_r, stmts)
    ELSE Ok(Append(stmts,
                   StmtBlock(Loop(loop_id, Append(loop_r.stmts, Br(loop_id)), "None"))),
            loop_r.s)

\* what the while arm pushes to stmts: Block { Loop { loop_stmts, Br } }
while_block(block_id, loop_id, stmts, loop_r) ==
    IF ~loop_r.ok THEN Failed(loop_r, stmts)
    ELSE Ok(Append(stmts,
                   StmtBlock(Block(block_id,
                                   <<StmtBlock(Loop(loop_id,
                                                    Append(loop_r.stmts, Br(loop_id)),
                                                    "None"))>>,
                                   "None"))),
            loop_r.s)

\* reduce_block_rec, S::WhileStmt with the exit branch aimed at the loop
reduce_while_exit_loop(statement, stmts, s) ==
    LET b == fresh_bb_id(s)
        l == fresh_bb_id(b.s)
    IN  while_block(b.id, l.id, stmts,
            reduce_block_rec(statement.block, 1,
                PushAll(reduce_expr(statement.expr, <<>>, l.s),
                        <<Const("I32", 1), Binop("I32Xor"), BrIf(l.id)>>)))

\* reduce_block_rec, S::WhileStmt: two fresh ids, then the condition, the
\* test, the body and the back branch go to loop_stmts
reduce_while(statement, stmts, s) ==
    LET b == fresh_bb_id(s)
        l == fresh_bb_id(b.s)
    IN  while_block(b.id, l.id, stmts,
            reduce_block_rec(statement.block, 1,
                PushAll(reduce_expr(statement.expr, <<>>, l.s),
                        <<Const("I32", 1), Binop("I32Xor"), BrIf(b.id)>>)))

\* reduce_block_rec, S::IfStmt: the If block pushed after the condition
if_block(cond, then_r, else_r) ==
    IF ~else_r.ok THEN Failed(else_r, cond.stmts)
    ELSE Ok(Append(cond.stmts,
                   StmtBlock(If(fresh_bb_id(cond.s).id, then_r.stmts, else_r.stmts, "None"))),
            else_r.s)

\* reduce_block_rec, S::IfStmt: the else block, if there is one
reduce_if_else(statement, cond, then_r) ==
    IF ~then_r.ok THEN Failed(then_r, cond.stmts)
    ELSE if_block(cond, then_r,
                  IF statement.has_else
                  THEN reduce_block_rec(statement.else_block, 1, Ok(<<>>, then_r.s))
                  ELSE Ok(<<>>, then_r.s))

\* reduce_block_rec, S::IfStmt: a fresh id and the then block
reduce_if_then(statement, cond) ==
    IF ~cond.ok THEN cond
    ELSE reduce_if_else(statement, cond,
             reduce_block_rec(statement.block, 1, Ok(<<>>, fresh_bb_id(cond.s).s)))

\* reduce_block_rec, S::IfStmt: the condition is pushed to stmts first
reduce_if(statement, stmts, s) ==
    reduce_if_then(statement, reduce_expr(statement.expr, stmts, s))

\* one statement of reduce_block_rec
reduce_stmt(statement, stmts, s) ==
    CASE statement.k \in {"AssignStmt", "LetStmt"} ->
            Push(reduce_expr(statement.expr, stmts, s), Set(statement.n))
      [] statement.k = "ExprStmt" ->
            Push(reduce_expr(statement.expr, stmts, s), Drop)
      [] statement.k = "ReturnStmt" ->
            Push(IF statement.has_expr THEN reduce_expr(statement.expr, stmts, s)
                 ELSE Ok(stmts, s),
                 Return)
      [] statement.k = "WhileStmt" -> reduce_while(statement, stmts, s)
      [] statement.k = "IfStmt" -> reduce_if(statement, stmts, s)

\* reduce_block_rec: the statements of block from the i-th on, r being the
\* result so far (the list they are pushed to and the state)
reduce_block_rec(block, i, r) ==
    IF ~r.ok \/ i > Len(block) THEN r
    ELSE reduce_block_rec(block, i + 1, reduce_stmt(block[i], r.stmts, r.s))

\* the Block of reduce_block around the reduced statements
as_block(id, r) ==
    [ok |-> r.ok, panic |-> r.panic, s |-> r.s, err |-> r.err,
     block |-> Block(id, r.stmts, "None")]

\* reduce_block: [ok, panic, block, s, err]
reduce_block(block, s) ==
    as_block(fresh_bb_id(s).id, reduce_block_rec(block, 1, Ok(<<>>, fresh_bb_id(s).s)))

\* reduce_asm_statement: every assembly statement has its MIR statement
reduce_asm_statement(stmt) == [ok |-> TRUE, stmt |-> stmt, err |-> ""]

RECURSIVE reduce_asm_statements(_, _, _, _)
\* reduce_asm_statements: the statements from the i-th on; one that fails is
\* reported and left out
reduce_asm_statements(stmts, i, reduced_stmts, s) ==
    IF i > Len(stmts) THEN Ok(reduced_stmts, s)
    ELSE LET r == reduce_asm_statement(stmts[i])
         IN  IF r.ok
             THEN reduce_asm_statements(stmts, i + 1, Append(reduced_stmts, r.stmt), s)
             ELSE reduce_asm_statements(stmts, i + 1, reduced_stmts, report(s, r.err))

\* the functions of the typed program (NameFun with what the name and type
\* stores hold for it): [fun_id, is_fun, sig, locals, body, block, asm]
NameFun(fun_id, is_fun, sig, locals, body, block, asm) ==
    [fun_id |-> fun_id, is_fun |-> is_fun, sig |-> sig, locals |-> locals,
     body |-> body, block |-> block, asm |-> asm]

RECURSIVE ConvertAll(_, _)
\* `.map(|t| convert_type(t)).collect()` of a Result: the first Err, if any
ConvertAll(ts, i) ==
    IF i > Len(ts) THEN [ok |-> TRUE, err |-> ""]
    ELSE IF ~convert_type(ts[i]).ok
    THEN [ok |-> FALSE, err |-> convert_type(ts[i]).err]
    ELSE ConvertAll(ts, i + 1)

\* get_locals: Err on a local whose type is no value type
get_locals(locals) ==
    IF \E i \in 1..Len(locals) : locals[i] \notin {"I32", "I64", "F32", "F64", "Bool"}
    THEN [ok |-> FALSE, err |-> "Invalid parameter type"]
    ELSE [ok |-> TRUE, err |-> ""]

\* the lowered Function: the function id and the body block
Function(fun_id, body) == [fun_id |-> fun_id, body |-> body]
NoFunction == Function(0 - 1, NoBlock)

\* reduce_fun after the signature and the locals: the body
reduce_body(fun, s, body) ==
    [ok |-> body.ok, panic |-> body.panic, s |-> body.s, err |-> body.err,
     fun |-> IF body.ok THEN Function(fun.fun_id, body.block) ELSE NoFunction]

\* reduce_fun: [ok, panic, fun, s, err]
reduce_fun(fun, s) ==
    LET sig == ConvertAll(fun.sig, 1)
        s1 == IF fun.is_fun THEN s
              ELSE report(s, "Function does not have function type")
        locals == get_locals(fun.locals)
    IN  IF fun.is_fun /\ ~sig.ok
        THEN [ok |-> FALSE, panic |-> FALSE, fun |-> NoFunction, s |-> s, err |-> sig.err]
        ELSE IF ~locals.ok
        THEN [ok |-> FALSE, panic |-> FALSE, fun |-> NoFunction, s |-> s1, err |-> locals.err]
        ELSE IF fun.body = "Zephyr"
        THEN reduce_body(fun, s1, reduce_block(fun.block, s1))
        ELSE reduce_body(fun, s1,
                 as_block(fresh_bb_id(s1).id,
                          reduce_asm_statements(fun.asm, 1, <<>>, fresh_bb_id(s1).s)))

\* ------------------------------------------------------------------------
\* The typed programs handed to reduce
\* ------------------------------------------------------------------------
RECURSIVE SeqsUpTo(_, _)
\* the sequences over S of length at most n
SeqsUpTo(S, n) ==
    IF n = 0 THEN {<<>>}
    ELSE LET shorter == SeqsUpTo(S, n - 1)
         IN  shorter \cup {Append(q, x) : q \in shorter, x \in S}

ExprLeaves == {EVariable(1), EVariable(2)}
ExprOps == {"Plus", "Less", "And", "Or"}
\* the functions a call can name, as the names and types stores declare
\* them: function 0 takes no parameter and returns nothing, function 3 + n
\* takes n parameters and returns one i32; [params, rets]
fun_type(fun_id) ==
    IF fun_id = 0 THEN [params |-> 0, rets |-> 0]
    ELSE [params |-> fun_id - 3, rets |-> 1]

RECURSIVE Exprs(_)
\* well-typed expressions of nesting depth at most d
Exprs(d) ==
    IF d = 0 THEN ExprLeaves
    ELSE LET sub == Exprs(d - 1)
         IN  sub \cup {EBinary(l, op, r, "I32") : l \in sub, r \in sub, op \in ExprOps}
                 \cup {ECallDirect(3 + Len(args), args) : args \in SeqsUpTo(sub, MaxArgs)}

\* expressions of the other kinds: literals, unary operators, and those that
\* reduce_expr skips, rejects or reports
OddLeaves ==
    {ECallIndirect, EFunction(3), EBoolean(1), EBoolean(0),
     EInteger(I32Max, "I32"), EInteger(I32Max + 1, "I32"),
     EInteger(I32Max + 1, "I64"), EInteger(U64Max, "I64"),
     EInteger(1, "F32"), EInteger(1, "Unit"), EFloat(1, "F64"), EFloat(1, "I32")}
OddExprs ==
    OddLeaves
    \cup {EBinary(l, op, r, "I32") :
            l \in OddLeaves \cup ExprLeaves, r \in OddLeaves \cup ExprLeaves,
            op \in {"Plus", "And"}}
    \cup {EBinary(EVariable(1), op, EVariable(2), t) :
            op \in {"Plus", "Remainder", "And", "Or"}, t \in {"I64", "F32", "Bool", "Unit"}}
    \cup {EUnary(unop, x, t) :
            unop \in {"Minus", "Not"}, x \in {EVariable(1), ECallIndirect},
            t \in {"I32", "I64", "F32", "Bool", "Any"}}
    \cup {ECallDirect(5, <<x, EVariable(2)>>) : x \in OddLeaves}

\* the conditions and the simple statements of the nested statements
Conds == {EVariable(1), EBinary(EVariable(1), "And", EVariable(2), "I32"), ECallIndirect}
SimpleStmts ==
    {LetStmt(1, EVariable(2)), ReturnNone, ExprStmt(ECallIndirect), ExprStmt(EFunction(3)),
     ExprStmt(ECallDirect(4, <<EVariable(1)>>)), ExprStmt(ECallDirect(0, <<>>))}

RECURSIVE Stmts(_)
\* statements with while and if nested at most d deep
Stmts(d) ==
    IF d = 0 THEN SimpleStmts
    ELSE LET sub == SeqsUpTo(Stmts(d - 1), MaxBlockLen)
         IN  Stmts(d - 1)
             \cup {WhileStmt(c, b) : c \in Conds, b \in sub}
             \cup {IfStmt(c, b) : c \in Conds, b \in sub}
             \cup {IfElseStmt(c, b, eb) :
                     c \in Conds, b \in sub, eb \in SeqsUpTo(SimpleStmts, MaxBlockLen)}

\* function bodies: one return of an expression, one nested statement, or a
\* nested statement followed by a simple one
Bodies ==
    {<<ReturnStmt(e)>> : e \in Exprs(MaxExprDepth) \cup OddExprs}
    \cup SeqsUpTo(Stmts(MaxNest), 1)
    \cup {<<a, b>> : a \in Stmts(MaxNest - 1), b \in SimpleStmts}

SmallBodies == SeqsUpTo(Stmts(1), 1)

ZephyrFun(fun_id, block) == NameFun(fun_id, TRUE, <<"I32", "I32">>, <<"I32">>, "Zephyr", block, <<>>)

\* functions that exercise the other paths of reduce_fun
OtherFuns ==
    {NameFun(1, TRUE, <<"I32">>, <<>>, "Asm", <<>>, <<Const("I32", 1), Drop, Return>>),
     NameFun(1, FALSE, <<>>, <<"I32">>, "Zephyr", <<ReturnNone>>, <<>>),
     NameFun(1, TRUE, <<"I32", "Unit">>, <<>>, "Zephyr", <<ReturnNone>>, <<>>),
     NameFun(1, TRUE, <<"I32">>, <<"Bool", "Unit">>, "Zephyr", <<ReturnNone>>, <<>>),
     ZephyrFun(1, <<WhileStmt(EVariable(1), <<ReturnNone>>)>>)}

Programs ==
    {<<ZephyrFun(1, b)>> : b \in Bodies}
    \cup {<<o, ZephyrFun(2, b)>> : o \in OtherFuns, b \in SmallBodies}

\* ------------------------------------------------------------------------
\* The pipeline drivers to_hir (src/src/hir/mod.rs) and to_mir
\* (src/src/mir/mod.rs)
\* ------------------------------------------------------------------------
Drivers == {"to_hir", "to_mir"}

\* ErrorHandler::flush_and_exit_if_err and print_and_exit: the process exits
\* when an error has been reported
flush_and_exit_if_err(errs) == errs # {}


\* to_hir and to_mir are entered with an empty error sink
DriverInit ==
    /\ driver \in Drivers
    /\ ppc = "resolve"
    /\ sink = {}
    /\ entered = <<>>
    /\ prog = <<>>
    /\ fun_idx = 1
    /\ bb_id = 0
    /\ funs = <<>>

\* a pass is entered: its name, and whether the sink already holds an error
Enter(pass) == Append(entered, [pass |-> pass, dirty |-> sink # {}])

\* name_resolver.resolve / resolver.resolve: the pass may report errors
Resolve(err) ==
    /\ ppc = "resolve"
    /\ entered' = Enter("resolver")
    /\ sink' = IF err THEN sink \cup {"name resolution error"} ELSE sink
    /\ ppc' = "check"
    /\ UNCHANGED <<driver, prog, fun_idx, bb_id, funs>>
    /\ UNCHANGED <<tcvars, stvars, scvars>>

\* type_checker.check, entered right after the resolver; to_mir then calls
\* print_and_exit, to_hir goes on to the asm validator
TypeCheck(err) ==
    /\ ppc = "check"
    /\ entered' = Enter("type checker")
    /\ sink' = IF err THEN sink \cup {"type error"} ELSE sink
    /\ ppc' = IF driver = "to_hir" THEN "validate" ELSE "flush"
    /\ UNCHANGED <<driver, prog, fun_idx, bb_id, funs>>
    /\ UNCHANGED <<tcvars, stvars, scvars>>

\* to_hir: asm_validator.validate_asm, entered right after the type checker
ValidateAsm(err) ==
    /\ ppc = "validate"
    /\ entered' = Enter("asm validator")
    /\ sink' = IF err THEN sink \cup {"asm error"} ELSE sink
    /\ ppc' = "flush"
    /\ UNCHANGED <<driver, prog, fun_idx, bb_id, funs>>
    /\ UNCHANGED <<tcvars, stvars, scvars>>

\* to_hir line 61 / to_mir line 53: the flush before the lowerer
Flush ==
    /\ ppc = "flush"
    /\ ppc' = IF flush_and_exit_if_err(sink) THEN "exit" ELSE "reduce"
    /\ UNCHANGED <<driver, sink, entered, prog, fun_idx, bb_id, funs>>
    /\ UNCHANGED <<tcvars, stvars, scvars>>

\* reduce is entered with the typed program: State::new and an empty funs
ReduceStart ==
    /\ ppc = "reduce"
    /\ entered' = Enter("lowerer")
    /\ \E typed_program \in Programs : prog' = typed_program
    /\ bb_id' = StateNew.bb_id
    /\ funs' = <<>>
    /\ fun_idx' = 1
    /\ ppc' = "funs"
    /\ UNCHANGED <<driver, sink>>
    /\ UNCHANGED <<tcvars, stvars, scvars>>

\* the Err arm of reduce without the report
reduce_arm_silent(r) ==
    [panic |-> r.panic, pushed |-> r.ok, fun |-> r.fun, s |-> r.s]

\* reduce, the match on the result of reduce_fun: Ok pushes the function, Err
\* is reported to the sink; [panic, pushed, fun, s]
reduce_arm(r) ==
    [panic |-> r.panic, pushed |-> r.ok, fun |-> r.fun,
     s |-> IF r.ok \/ r.panic THEN r.s ELSE report(r.s, r.err)]

ReduceFun ==
    /\ ppc = "funs"
    /\ fun_idx <= Len(prog)
    /\ LET r == reduce_arm(reduce_fun(prog[fun_idx], [bb_id |-> bb_id, err |-> sink]))
       IN  /\ funs' = IF r.pushed THEN Append(funs, r.fun) ELSE funs
           /\ bb_id' = r.s.bb_id
           /\ sink' = r.s.err
           /\ ppc' = IF r.panic THEN "panic" ELSE ppc
    /\ fun_idx' = fun_idx + 1
    /\ UNCHANGED <<driver, entered, prog>>
    /\ UNCHANGED <<tcvars, stvars, scvars>>

\* reduce returns Program { funs }
ReduceEnd ==
    /\ ppc = "funs"
    /\ fun_idx > Len(prog)
    /\ ppc' = "flush_end"
    /\ UNCHANGED <<driver, sink, entered, prog, fun_idx, bb_id, funs>>
    /\ UNCHANGED <<tcvars, stvars, scvars>>

\* to_hir line 74 / to_mir line 62: the flush after the lowerer, then the
\* driver returns the lowered program
FlushEnd ==
    /\ ppc = "flush_end"
    /\ ppc' = IF flush_and_exit_if_err(sink) THEN "exit" ELSE "returned"
    /\ UNCHANGED <<driver, sink, entered, prog, fun_idx, bb_id, funs>>
    /\ UNCHANGED <<tcvars, stvars, scvars>>

PipeNext ==
    \/ \E err \in BOOLEAN : Resolve(err)
    \/ \E err \in BOOLEAN : TypeCheck(err)
    \/ \E err \in BOOLEAN : ValidateAsm(err)
    \/ Flush
    \/ ReduceStart
    \/ ReduceFun
    \/ ReduceEnd
    \/ FlushEnd

PipeInit == DriverInit /\ CheckIdle /\ StoreIdle /\ ScanIdle
PipeSpec == PipeInit /\ [][PipeNext]_vars

\* ------------------------------------------------------------------------
\* Helpers of the properties of check
\* ------------------------------------------------------------------------
\* one full sweep `for constr in &constraints` from constraint i on
RECURSIVE SweepFrom(_, _, _, _)
SweepFrom(cs, i, tv, progress) ==
    IF i > Len(cs) THEN [vars |-> tv, progress |-> progress]
    ELSE LET r == apply_constr(cs[i], tv)
         IN  SweepFrom(cs, i + 1, r.vars, r.progress \/ progress)

RECURSIVE SumLen(_, _)
SumLen(tv, i) == IF i > NumTypeVars THEN 0 ELSE Len(tv[i]) + SumLen(tv, i + 1)
\* total number of candidates of a type-variable store
SumCands(tv) == SumLen(tv, 1)

Mentions(c, v) == c.a = v \/ c.b = v
Links(c, a, b) == c.kind = "Equality" /\ ((c.a = a /\ c.b = b) \/ (c.a = b /\ c.b = a))
ConstrIds == 1..Len(constraints)

\* ------------------------------------------------------------------------
\* C1: when check returns without any diagnostic, the types written to the
\* output store for the two sides of every Equality constraint are the same.
\* ------------------------------------------------------------------------
C1_EqualitySidesAgree ==
    (pc = "done" /\ errors = {}) =>
        \A i \in ConstrIds :
            constraints[i].kind = "Equality" =>
                store[constraints[i].a] = store[constraints[i].b]

\* ------------------------------------------------------------------------
\* C2: when the loop of check has stopped, one more sweep over the same
\* constraints makes no progress and changes no candidate list.
\* ------------------------------------------------------------------------
C2_FixedPoint ==
    pc = "done" =>
        LET r == SweepFrom(constraints, 1, type_vars, FALSE)
        IN  r.vars = type_vars /\ ~r.progress

\* ------------------------------------------------------------------------
\* C3: the total number of candidates never increases from one constraint
\* application to the next.
\* ------------------------------------------------------------------------
\* C3 as claimed: for every constraint, lists starting with Any included
C3_SumNeverIncreases ==
    [][SumCands(type_vars') <= SumCands(type_vars)]_vars

\* the constraint about to be applied replaces a list that starts with Any by
\* the list of its other side (the placeholder propagation of Equality and
\* Included)
ReplacesAny ==
    /\ pc = "sweep"
    /\ idx <= Len(constraints)
    /\ LET c == constraints[idx]
       IN  \/ c.kind = "Equality"
              /\ (StartsWithAny(type_vars[c.a]) \/ StartsWithAny(type_vars[c.b]))
           \/ c.kind = "Included" /\ StartsWithAny(type_vars[c.a])

\* C3 as amended: the total number of candidates never increases from one
\* constraint application to the next, unless an Equality has a side whose
\* list starts with Any or an Included has a first list starting with Any:
\* that list is then replaced by the list of the other side.
C3_SumNeverIncreasesUnlessAny ==
    [][~ReplacesAny => SumCands(type_vars') <= SumCands(type_vars)]_vars

\* a sweep has applied its constraints, none of them to a list starting with
\* Any, and candidates were removed
C3_Witness ==
    /\ pc = "sweep"
    /\ idx > Len(constraints)
    /\ \A v \in TypeVarIds : ~StartsWithAny(input_vars[v])
    /\ SumCands(type_vars) < SumCands(input_vars)

\* ------------------------------------------------------------------------
\* C4: the fixed-point loop of check terminates: eventually a sweep reports
\* no progress and check returns.
\* ------------------------------------------------------------------------
C4_Terminates == <>(pc = "done")

\* check has returned after more than one sweep changed the store, on an input
\* with a list starting with Any and an empty list
C4_Witness ==
    /\ pc = "done"
    /\ type_vars # input_vars
    /\ \E v \in TypeVarIds : StartsWithAny(input_vars[v])
    /\ \E v \in TypeVarIds : input_vars[v] = <<>>
    /\ \E i \in ConstrIds : constraints[i].a = constraints[i].b

\* ------------------------------------------------------------------------
\* C5: a type variable with candidates {I32,I64} linked by an Equality to a
\* type variable with candidates {I32} resolves to I32; with no constraint on
\* it (and the canonical integer type variable intact) it is defaulted to I64;
\* no diagnostic in either case.
\* ------------------------------------------------------------------------
\* a is linked to b by an Equality and nothing else constrains a or b
OnlyLinked(a, b) ==
    /\ \E i \in ConstrIds : Links(constraints[i], a, b)
    /\ \A i \in ConstrIds :
           (Mentions(constraints[i], a) \/ Mentions(constraints[i], b))
               => Links(constraints[i], a, b)

Unconstrained(v) == \A i \in ConstrIds : ~Mentions(constraints[i], v)

NoDiagAt(v) == \A e \in errors : e.loc # v

\* build_store reported nothing
NoBuildDiag == \A e \in errors : e.loc # 0

C6_Defaulting ==
    pc = "done" =>
        \A v \in TypeVarIds :
            IF Len(type_vars[v]) = 1 THEN outcome[v] = type_vars[v][1]
            ELSE IF type_vars[v] = IntegerCandidates THEN outcome[v] = I64
            ELSE outcome[v] = NoType /\ ~NoBuildDiag

\* ------------------------------------------------------------------------
\* Helpers of the properties of Store
\* ------------------------------------------------------------------------
Range(f) == {f[i] : i \in DOMAIN f}
\* the step is a Store operation named op
StoreStep(op) == last'.n = last.n + 1 /\ last'.op = op

\* ------------------------------------------------------------------------
\* C7: the k-th call of fresh_id on a store with module id m (calls through
\* add included, k from 0) returns m * 2^CounterBits + k, which decodes to
\* (m, k); no two calls return the same id; and once the counter cannot be
\* incremented fresh_id fails instead of wrapping around.
\* ------------------------------------------------------------------------
C7_FreshIds ==
    \A s \in StoreIds :
        LET ids == returned[s]
            m == stores[s].mod_id
        IN  /\ \A k \in 0..(Len(ids) - 1) :
                   /\ ids[k + 1] = m * Pow2(CounterBits) + k
                   /\ IdMod(ids[k + 1]) = m
                   /\ IdCounter(ids[k + 1]) = k
            /\ \A i, j \in 1..Len(ids) : i # j => ids[i] # ids[j]
            /\ Len(ids) <= CounterMax
            /\ (last.recv = s /\ last.op \in {"fresh_id", "add"}) =>
                   /\ last.ok => (Len(ids) > 0 /\ last.id = ids[Len(ids)])
                   /\ ~last.ok => (panicked /\ stores[s].counter = CounterMax
                                   /\ Len(ids) = CounterMax)

\* fresh_id has failed on a store that has generated every id its counter allows
C7_Witness ==
    \E s \in StoreIds :
        /\ panicked
        /\ last.op = "fresh_id" /\ last.recv = s /\ ~last.ok
        /\ Len(returned[s]) = CounterMax
        /\ \E e \in stores[s].data : e[1] \in Range(returned[s])

\* ------------------------------------------------------------------------
\* C8: two stores created with distinct module ids never return a common id,
\* whatever the interleaving of their fresh_id and add calls.
\* ------------------------------------------------------------------------
C8_DisjointIds ==
    \A s, t \in StoreIds :
        stores[s].mod_id # stores[t].mod_id =>
            Range(returned[s]) \cap Range(returned[t]) = {}

\* two stores with distinct module ids have each returned two ids
C8_Witness ==
    \E s, t \in StoreIds :
        /\ stores[s].mod_id # stores[t].mod_id
        /\ Len(returned[s]) = 2
        /\ Len(returned[t]) = 2

\* ------------------------------------------------------------------------
\* C9: extend(other) panics exactly when other's module id is the receiver's
\* or is in the receiver's merged set, and then leaves the receiver's table,
\* counter and merged set unchanged; otherwise it adds other's module id to
\* the merged set, which no operation shrinks, so that a second extend with a
\* store of that module id is rejected.
\* ------------------------------------------------------------------------
C9_ExtendRejects ==
    [][/\ StoreStep("extend") =>
            LET self == stores[last'.recv]
                other == stores[last'.arg]
                after == stores'[last'.recv]
                rejected == \/ other.mod_id = self.mod_id
                            \/ other.mod_id \in self.merged_mods
            IN  /\ panicked' = rejected
                /\ last'.ok = ~rejected
                /\ rejected => /\ after.data = self.data
                               /\ after.counter = self.counter
                               /\ after.merged_mods = self.merged_mods
                /\ ~rejected => after.merged_mods =
                                    self.merged_mods \cup {other.mod_id}
       /\ \A s \in StoreIds : stores[s].merged_mods \subseteq stores'[s].merged_mods
      ]_vars

\* a second extend with a store of an already merged module id was rejected
C9_Witness ==
    /\ panicked
    /\ last.op = "extend" /\ ~last.ok
    /\ stores[last.arg].mod_id # stores[last.recv].mod_id
    /\ stores[last.arg].mod_id \in stores[last.recv].merged_mods

\* ------------------------------------------------------------------------
\* C10: after a successful A.extend(B) the entries of A are the set-union of
\* A's entries before the call and B's entries, and A's module id and counter
\* are unchanged.
\* ------------------------------------------------------------------------
\* C10 as claimed
C10_ExtendIsUnion ==
    [][(StoreStep("extend") /\ last'.ok) =>
           LET self == stores[last'.recv]
               other == stores[last'.arg]
               after == stores'[last'.recv]
           IN  /\ after.data = self.data \cup other.data
               /\ after.mod_id = self.mod_id
               /\ after.counter = self.counter
      ]_vars

\* C10 as amended: after a successful A.extend(B), A holds every entry of B
\* and those of its entries before the call whose id is no id of B (on a
\* common id B's item replaces A's); that is the set-union of the two whenever
\* no id has different items in A and B, as when no entry came from insert;
\* A's module id and counter are unchanged.
C10_ExtendOtherWins ==
    [][(StoreStep("extend") /\ last'.ok) =>
           LET self == stores[last'.recv]
               other == stores[last'.arg]
               after == stores'[last'.recv]
               agree == \A e \in self.data, f \in other.data :
                            e[1] = f[1] => e[2] = f[2]
           IN  /\ Keys(after.data) = Keys(self.data) \cup Keys(other.data)
               /\ \A id \in Keys(after.data) :
                      get(after, id) = IF id \in Keys(other.data)
                                       THEN get(other, id) ELSE get(self, id)
               /\ Cardinality(after.data) = Cardinality(Keys(after.data))
               /\ agree => after.data = self.data \cup other.data
               /\ after.mod_id = self.mod_id
               /\ after.counter = self.counter
      ]_vars

\* a successful extend of a store with entries by a store with entries, one of
\* them under an id the receiver also had
C10_Witness ==
    /\ last.op = "extend" /\ last.ok
    /\ Cardinality(stores[last.recv].data) >= 2
    /\ stores[last.arg].data # {}
    /\ stores[last.recv].counter > 0
    /\ \E e \in stores[last.arg].data : IdMod(e[1]) = stores[last.recv].mod_id

\* ------------------------------------------------------------------------
\* C11: transmute(f) returns a store whose keys are exactly the ids of the
\* entries for which f returned a value, each mapped to f of its old value,
\* with no id for a dropped entry; module id, merged set and counter are those
\* of the original, so the next fresh_id on the result differs from every id
\* the original has generated.
\* ------------------------------------------------------------------------
C11_Transmute ==
    [][StoreStep("transmute") =>
        LET s == last'.recv
            f == last'.arg
            old == stores[s]
            res == stores'[s]
        IN  /\ Keys(res.data) = {id \in Keys(old.data) : f[get(old, id)] # None}
            /\ \A id \in Keys(res.data) : get(res, id) = f[get(old, id)]
            /\ \A id \in Keys(old.data) :
                   f[get(old, id)] = None => get(res, id) = None
            /\ res.mod_id = old.mod_id
            /\ res.merged_mods = old.merged_mods
            /\ res.counter = old.counter
            /\ ~fresh_id(res).panic => fresh_id(res).id \notin Range(returned[s])
    ]_vars

\* a store that has generated two ids was transmuted by the closure that drops
\* "a", and an entry survived under an id the store had generated
C11_Witness ==
    /\ last.op = "transmute"
    /\ last.arg["a"] = None
    /\ Len(returned[last.recv]) >= 2
    /\ Cardinality(Keys(stores[last.recv].data)) < Len(returned[last.recv])
    /\ \E e \in stores[last.recv].data : e[1] \in Range(returned[last.recv])

\* ------------------------------------------------------------------------
\* C12: get(id) never returns None for an id generated by this store: every
\* add, insert, fresh_id and extend call leaves a value under every id the
\* store's add or fresh_id has returned (the id returned by the call itself
\* included, and every id that had a value before the call).
\* ------------------------------------------------------------------------
C12_GetGenerated ==
    [][(/\ last'.n = last.n + 1
        /\ last'.op \in {"add", "insert", "fresh_id", "extend"}
        /\ last'.ok) =>
        \A s \in StoreIds :
            stores'[s].alive =>
                \A id \in Range(returned'[s]) :
                    (id \in Range(returned[s]) => get(stores[s], id) # None)
                        => get(stores'[s], id) # None
    ]_vars

\* ------------------------------------------------------------------------
\* C13: add/get round trip: add(x) returns an id that no earlier add (or
\* fresh_id) on the same store has returned, get of that id is then x, and
\* the call changes the result of get for none of the ids returned earlier.
\* ------------------------------------------------------------------------
C13_AddGet ==
    [][(StoreStep("add") /\ last'.ok) =>
        LET s == last'.recv
        IN  /\ last'.id \notin Range(returned[s])
            /\ get(stores'[s], last'.id) = last'.arg
            /\ \A id \in Range(returned[s]) :
                   get(stores'[s], id) = get(stores[s], id)
    ]_vars

\* a third add on a store whose two earlier adds stored different items
C13_Witness ==
    /\ last.op = "add" /\ last.ok
    /\ Len(returned[last.recv]) = 3
    /\ get(stores[last.recv], returned[last.recv][1]) = "a"
    /\ get(stores[last.recv], returned[last.recv][2]) = "b"
    /\ get(stores[last.recv], returned[last.recv][3]) = "a"

\* ------------------------------------------------------------------------
\* C14: the type store returned by check has the ids of the input
\* type-variable store: every type variable i that got a type T (a singleton
\* or a defaulted integer) is found under i in the output store, also when a
\* type variable with a smaller id got a diagnostic and no type.
\* ------------------------------------------------------------------------
C14_SameIds ==
    pc = "done" =>
        \A i \in TypeVarIds :
            outcome[i] # NoType => (i <= Len(store) /\ store[i] = outcome[i])

\* ------------------------------------------------------------------------
\* Helpers of the properties of reduce
\* ------------------------------------------------------------------------
\* the function of the typed program that funs[k] was lowered from
Source(k) == CHOOSE f \in Range(prog) : f.fun_id = funs[k].fun_id

IsBranch(st) == st.s = "Control" /\ st.op \in {"Br", "BrIf"}

RECURSIVE BranchesInside(_, _)
\* every Br and BrIf of stmts aims at a Block or Loop around it: one of
\* enclosing, or one met on the way down
BranchesInside(stmts, enclosing) ==
    \A i \in DOMAIN stmts :
        CASE IsBranch(stmts[i]) -> stmts[i].n \in enclosing
          [] stmts[i].s = "Block" /\ stmts[i].blk.kind \in {"Block", "Loop"} ->
                BranchesInside(stmts[i].blk.stmts, enclosing \cup {stmts[i].blk.id})
          [] stmts[i].s = "Block" /\ stmts[i].blk.kind = "If" ->
                /\ BranchesInside(stmts[i].blk.stmts, enclosing)
                /\ BranchesInside(stmts[i].blk.else_stmts, enclosing)
          [] OTHER -> TRUE

RECURSIVE CountBranches(_, _)
\* the number of Br and BrIf statements of stmts from the i-th on, blocks included
CountBranches(stmts, i) ==
    IF i > Len(stmts) THEN 0
    ELSE CountBranches(stmts, i + 1)
         + (IF IsBranch(stmts[i]) THEN 1
            ELSE IF stmts[i].s = "Block"
            THEN CountBranches(stmts[i].blk.stmts, 1)
                 + CountBranches(stmts[i].blk.else_stmts, 1)
            ELSE 0)

\* ------------------------------------------------------------------------
\* C15: in every function pushed by reduce, whatever the nesting of while, if
\* and logical operators, each Br(b) and BrIf(b) lies inside the statement list
\* of a Block or Loop whose id is b.
\* ------------------------------------------------------------------------
C15_BranchTargets ==
    \A k \in DOMAIN funs :
        BranchesInside(funs[k].body.stmts, {funs[k].body.id})

\* the driver has returned a function with a while inside a while whose
\* condition is a logical operator: four branches, two levels deep
C15_Witness ==
    /\ ppc = "returned"
    /\ Len(funs) = 1
    /\ Len(prog) = 1
    /\ Len(prog[1].block) = 1
    /\ prog[1].block[1].k = "WhileStmt"
    /\ prog[1].block[1].expr.e = "Binary"
    /\ Len(prog[1].block[1].block) = 1
    /\ prog[1].block[1].block[1].k = "WhileStmt"
    /\ CountBranches(funs[1].body.stmts, 1) = 4

\* ------------------------------------------------------------------------
\* The lowering as the claims describe it, block ids left out (all 0)
\* ------------------------------------------------------------------------
RECURSIVE EraseIds(_, _)
\* stmts from the i-th on with every block id and branch target set to 0
EraseIds(stmts, i) ==
    IF i > Len(stmts) THEN <<>>
    ELSE <<IF IsBranch(stmts[i]) THEN [stmts[i] EXCEPT !.n = 0]
           ELSE IF stmts[i].s = "Block"
           THEN StmtBlock([kind |-> stmts[i].blk.kind, id |-> 0, t |-> stmts[i].blk.t,
                           stmts |-> EraseIds(stmts[i].blk.stmts, 1),
                           else_stmts |-> EraseIds(stmts[i].blk.else_stmts, 1)])
           ELSE stmts[i]>> \o EraseIds(stmts, i + 1)

IsLogical(e) ==
    e.e = "Binary" /\ e.op \in {"And", "Or"} /\ get_type(e.t).ok /\ get_type(e.t).t = "I32"

RECURSIVE ClaimedExpr(_)
RECURSIVE ClaimedArgs(_, _)
\* the arguments from the i-th on, left to right
ClaimedArgs(args, i) ==
    IF i > Len(args) THEN <<>> ELSE ClaimedExpr(args[i]) \o ClaimedArgs(args, i + 1)

\* the statements of an expression: operands left to right, then the
\* operator; a logical operator keeps its right operand in one branch of an If
\* block with result I32; an indirect call is skipped
ClaimedExpr(e) ==
    CASE e.e \in {"Integer", "Float"} -> <<Const(get_type(e.t).t, e.n)>>
      [] e.e = "Boolean" -> <<Const("I32", e.n)>>
      [] e.e = "Variable" -> <<Get(e.n)>>
      [] IsLogical(e) /\ e.op = "And" ->
            ClaimedExpr(e.args[1])
            \o <<StmtBlock(If(0, ClaimedExpr(e.args[2]), <<Const("I32", 0)>>, "I32"))>>
      [] IsLogical(e) /\ e.op = "Or" ->
            ClaimedExpr(e.args[1])
            \o <<StmtBlock(If(0, <<Const("I32", 1)>>, ClaimedExpr(e.args[2]), "I32"))>>
      [] e.e = "Binary" /\ ~IsLogical(e) ->
            ClaimedArgs(e.args, 1)
            \o <<Stmt(get_binop(e.op, get_type(e.t).t).from,
                      get_binop(e.op, get_type(e.t).t).op, 0)>>
      [] e.e = "Unary" /\ e.op = "Minus" /\ get_type(e.t).t \in {"I32", "I64"} ->
            <<Const(get_type(e.t).t, 0)>> \o ClaimedExpr(e.args[1])
            \o <<Binop(get_type(e.t).t \o "Sub")>>
      [] e.e = "Unary" /\ e.op = "Minus" /\ get_type(e.t).t \notin {"I32", "I64"} ->
            ClaimedExpr(e.args[1]) \o <<Unop(get_type(e.t).t \o "Neg")>>
      [] e.e = "Unary" /\ e.op = "Not" ->
            (IF get_type(e.t).t = "I32" THEN <<Const("I32", 1)>> ELSE <<>>)
            \o ClaimedExpr(e.args[1]) \o <<Binop("I32Xor")>>
      [] e.e = "CallDirect" -> ClaimedArgs(e.args, 1) \o <<Call(e.n)>>
      [] OTHER -> <<>>

RECURSIVE ClaimedBlock(_, _)
\* the statements of a block from its i-th statement on; a while is one Block
\* holding one Loop: condition, Const I32(1), Binop I32Xor, BrIf, body, Br
ClaimedStmt(st) ==
    CASE st.k \in {"AssignStmt", "LetStmt"} -> ClaimedExpr(st.expr) \o <<Set(st.n)>>
      [] st.k = "ExprStmt" -> ClaimedExpr(st.expr) \o <<Drop>>
      [] st.k = "ReturnStmt" ->
            (IF st.has_expr THEN ClaimedExpr(st.expr) ELSE <<>>) \o <<Return>>
      [] st.k = "WhileStmt" ->
            <<StmtBlock(Block(0,
                <<StmtBlock(Loop(0,
                    ClaimedExpr(st.expr)
                    \o <<Const("I32", 1), Binop("I32Xor"), BrIf(0)>>
                    \o ClaimedBlock(st.block, 1)
                    \o <<Br(0)>>,
                    "None"))>>,
                "None"))>>
      [] st.k = "IfStmt" ->
            ClaimedExpr(st.expr)
            \o <<StmtBlock(If(0, ClaimedBlock(st.block, 1),
                              ClaimedBlock(st.else_block, 1), "None"))>>

ClaimedBlock(block, i) ==
    IF i > Len(block) THEN <<>>
    ELSE ClaimedStmt(block[i]) \o ClaimedBlock(block, i + 1)

IsBlockOf(st, kind) == st.s = "Block" /\ st.blk.kind = kind

\* Block b and its Loop l: two ids, no result type, and among the statements
\* of l every BrIf aims at b and every Br at l
LoopIds(b, l) ==
    /\ l.id # b.id
    /\ b.t = "None"
    /\ l.t = "None"
    /\ \A j \in DOMAIN l.stmts :
          /\ (IsBranch(l.stmts[j]) /\ l.stmts[j].op = "BrIf") => l.stmts[j].n = b.id
          /\ (IsBranch(l.stmts[j]) /\ l.stmts[j].op = "Br") => l.stmts[j].n = l.id

RECURSIVE WhileIds(_)
\* in stmts, blocks included, every Block holds exactly one Loop, with the
\* ids of LoopIds, and there is no Loop anywhere else
WhileIds(stmts) ==
    \A i \in DOMAIN stmts :
        CASE IsBlockOf(stmts[i], "Loop") -> FALSE
          [] IsBlockOf(stmts[i], "If") ->
                /\ WhileIds(stmts[i].blk.stmts)
                /\ WhileIds(stmts[i].blk.else_stmts)
          [] IsBlockOf(stmts[i], "Block") ->
                /\ Len(stmts[i].blk.stmts) = 1
                /\ IsBlockOf(stmts[i].blk.stmts[1], "Loop")
                /\ LoopIds(stmts[i].blk, stmts[i].blk.stmts[1].blk)
                /\ WhileIds(stmts[i].blk.stmts[1].blk.stmts)
          [] OTHER -> TRUE

RECURSIVE BlockIds(_, _)
\* the ids of the blocks of stmts from the i-th on, in the order of the
\* statements (a block before the blocks inside it)
BlockIds(stmts, i) ==
    IF i > Len(stmts) THEN <<>>
    ELSE (IF stmts[i].s = "Block"
          THEN <<stmts[i].blk.id>> \o BlockIds(stmts[i].blk.stmts, 1)
               \o BlockIds(stmts[i].blk.else_stmts, 1)
          ELSE <<>>) \o BlockIds(stmts, i + 1)

RECURSIVE ProgramIds(_)
\* the ids of all the blocks of the functions pushed from the k-th on
ProgramIds(k) ==
    IF k > Len(funs) THEN <<>>
    ELSE <<funs[k].body.id>> \o BlockIds(funs[k].body.stmts, 1) \o ProgramIds(k + 1)

Distinct(q) == \A i, j \in DOMAIN q : i # j => q[i] # q[j]

\* ------------------------------------------------------------------------
\* C16: a while statement lowers to exactly one Block with a fresh id B whose
\* only statement is a Loop with a fresh id L; the statements of the Loop are,
\* in order, the lowered condition, Const I32(1), Binop I32Xor, BrIf(B), the
\* lowered body and Br(L); neither block has a result type.
\* ------------------------------------------------------------------------
C16_WhileShape ==
    /\ Distinct(ProgramIds(1))
    /\ \A k \in DOMAIN funs :
           Source(k).body = "Zephyr" =>
               /\ EraseIds(funs[k].body.stmts, 1) = ClaimedBlock(Source(k).block, 1)
               /\ WhileIds(funs[k].body.stmts)

\* the driver has returned a function whose if statement holds a while with a
\* logical operator as condition and an assignment as body
C16_Witness ==
    /\ ppc = "returned"
    /\ Len(funs) = 1
    /\ Len(prog) = 1
    /\ Len(prog[1].block) = 1
    /\ prog[1].block[1].k = "IfStmt"
    /\ prog[1].block[1].block =
           <<WhileStmt(EBinary(EVariable(1), "And", EVariable(2), "I32"),
                       <<LetStmt(1, EVariable(2))>>)>>

\* the function funs[k] was lowered from `return e` with e a logical operator
ReturnsLogical(k) ==
    /\ Source(k).body = "Zephyr"
    /\ Len(Source(k).block) = 1
    /\ Source(k).block[1].k = "ReturnStmt"
    /\ Source(k).block[1].has_expr
    /\ IsLogical(Source(k).block[1].expr)

\* stmts is the statements of a followed by one If block with result I32 that
\* holds the statements of b in its then branch (And) or its else branch (Or)
\* and the constant in the other
ShortCircuit(stmts, op, a, b) ==
    /\ Len(stmts) = Len(ClaimedExpr(a)) + 1
    /\ EraseIds(SubSeq(stmts, 1, Len(stmts) - 1), 1) = ClaimedExpr(a)
    /\ IsBlockOf(stmts[Len(stmts)], "If")
    /\ stmts[Len(stmts)].blk.t = "I32"
    /\ op = "And" =>
          /\ EraseIds(stmts[Len(stmts)].blk.stmts, 1) = ClaimedExpr(b)
          /\ stmts[Len(stmts)].blk.else_stmts = <<Const("I32", 0)>>
    /\ op = "Or" =>
          /\ stmts[Len(stmts)].blk.stmts = <<Const("I32", 1)>>
          /\ EraseIds(stmts[Len(stmts)].blk.else_stmts, 1) = ClaimedExpr(b)

\* ------------------------------------------------------------------------
\* C17: `a && b` emits the statements of a followed by one If block with
\* result type I32 whose then branch is the lowering of b and whose else branch
\* is the single statement Const I32(0); `a || b` emits the statements of a
\* followed by one If block with result type I32 whose then branch is
\* Const I32(1) and whose else branch is the lowering of b; the statements of
\* b are nowhere else.
\* ------------------------------------------------------------------------
C17_ShortCircuit ==
    \A k \in DOMAIN funs :
        ReturnsLogical(k) =>
            /\ funs[k].body.stmts[Len(funs[k].body.stmts)] = Return
            /\ ShortCircuit(SubSeq(funs[k].body.stmts, 1, Len(funs[k].body.stmts) - 1),
                            Source(k).block[1].expr.op,
                            Source(k).block[1].expr.args[1],
                            Source(k).block[1].expr.args[2])

\* the driver has returned the lowering of `return (x || y) && f(x, y)`
C17_Witness ==
    /\ ppc = "returned"
    /\ Len(funs) = 1
    /\ ReturnsLogical(1)
    /\ Source(1).block[1].expr =
           EBinary(EBinary(EVariable(1), "Or", EVariable(2), "I32"), "And",
                   ECallDirect(5, <<EVariable(1), EVariable(2)>>), "I32")

RECURSIVE Effects(_, _)
\* the reads of variables and the calls among stmts from the i-th on, in the
\* order in which the statements are written, blocks entered in place (for
\* an If block the then branch before the else branch)
Effects(stmts, i) ==
    IF i > Len(stmts) THEN <<>>
    ELSE (CASE stmts[i].s \in {"Get", "Call"} -> <<[s |-> stmts[i].s, n |-> stmts[i].n]>>
            [] stmts[i].s = "Block" ->
                  Effects(stmts[i].blk.stmts, 1) \o Effects(stmts[i].blk.else_stmts, 1)
            [] OTHER -> <<>>) \o Effects(stmts, i + 1)

RECURSIVE EvalOrder(_)
RECURSIVE EvalOrderArgs(_, _)
\* the reads and calls of the arguments from the i-th on: argument i before
\* argument i + 1
EvalOrderArgs(args, i) ==
    IF i > Len(args) THEN <<>> ELSE EvalOrder(args[i]) \o EvalOrderArgs(args, i + 1)

\* the reads and calls of an expression evaluated left to right: the left
\* operand before the right one, the arguments before the call
EvalOrder(e) ==
    CASE e.e = "Variable" -> <<[s |-> "Get", n |-> e.n]>>
      [] e.e \in {"Binary", "Unary"} -> EvalOrderArgs(e.args, 1)
      [] e.e = "CallDirect" -> EvalOrderArgs(e.args, 1) \o <<[s |-> "Call", n |-> e.n]>>
      [] OTHER -> <<>>

RECURSIVE EvalOrderBlock(_, _)
\* the reads and calls of the statements of a block from the i-th on
EvalOrderBlock(block, i) ==
    IF i > Len(block) THEN <<>>
    ELSE (IF block[i].has_expr THEN EvalOrder(block[i].expr) ELSE <<>>)
         \o EvalOrderBlock(block[i].block, 1)
         \o (IF block[i].has_else THEN EvalOrderBlock(block[i].else_block, 1) ELSE <<>>)
         \o EvalOrderBlock(block, i + 1)

\* ------------------------------------------------------------------------
\* C18: lowering keeps the left-to-right evaluation order: in the emitted
\* statements the statements of the left operand of a binary expression come
\* before those of the right operand (for && and || before the If block that
\* holds the right operand), the statements of argument i of a direct call
\* come before those of argument i + 1 and all of them before the Call, at
\* every nesting depth.
\* ------------------------------------------------------------------------
C18_EvalOrder ==
    \A k \in DOMAIN funs :
        Source(k).body = "Zephyr" =>
            Effects(funs[k].body.stmts, 1) = EvalOrderBlock(Source(k).block, 1)

\* the driver has returned the lowering of `return (x + y) < f(y, x)`
C18_Witness ==
    /\ ppc = "returned"
    /\ Len(funs) = 1
    /\ Len(prog) = 1
    /\ prog[1].body = "Zephyr"
    /\ prog[1].block =
           <<ReturnStmt(EBinary(EBinary(EVariable(1), "Plus", EVariable(2), "I32"), "Less",
                                ECallDirect(5, <<EVariable(2), EVariable(1)>>), "I32"))>>
    /\ Effects(funs[1].body.stmts, 1) =
           <<[s |-> "Get", n |-> 1], [s |-> "Get", n |-> 2],
             [s |-> "Get", n |-> 2], [s |-> "Get", n |-> 1], [s |-> "Call", n |-> 5]>>

\* ------------------------------------------------------------------------
\* C19: between every two consecutive passes of the driver (resolver, type
\* checker, asm validator, lowerer) the error sink is flushed and the
\* pipeline aborts if an error was reported: no pass is entered after an
\* earlier pass has reported an error.
\* ------------------------------------------------------------------------
C19_FlushBetweenPasses ==
    \A i \in DOMAIN entered : ~entered[i].dirty

RECURSIVE HasIndirect(_)
\* the expression holds an indirect call, which reduce_expr leaves out
HasIndirect(e) ==
    \/ e.e = "CallIndirect"
    \/ \E i \in DOMAIN e.args : HasIndirect(e.args[i])

RECURSIVE HasIndirectBlock(_)
HasIndirectBlock(block) ==
    \E i \in DOMAIN block :
        \/ block[i].has_expr /\ HasIndirect(block[i].expr)
        \/ HasIndirectBlock(block[i].block)
        \/ HasIndirectBlock(block[i].else_block)

\* reduce has left something out of the functions it has gone through: a
\* function was dropped, or a function it pushed has an indirect call
Partial ==
    \/ Len(funs) < fun_idx - 1
    \/ \E k \in DOMAIN funs : Source(k).body = "Zephyr" /\ HasIndirectBlock(Source(k).block)

\* funs holds every function of the typed program, in its order, each with
\* all its statements
Complete ==
    /\ Len(funs) = Len(prog)
    /\ \A k \in DOMAIN funs :
          /\ funs[k].fun_id = prog[k].fun_id
          /\ prog[k].body = "Zephyr" =>
                /\ ~HasIndirectBlock(prog[k].block)
                /\ EraseIds(funs[k].body.stmts, 1) = ClaimedBlock(prog[k].block, 1)
          /\ prog[k].body = "Asm" => funs[k].body.stmts = prog[k].asm

\* ------------------------------------------------------------------------
\* C20: no partial lowered program reaches the caller: whenever reduce drops
\* a function (reduce_fun returned an error), skips an expression (an
\* indirect call) or skips an asm statement, an error has been reported to
\* the sink, so the flush after the lowerer aborts, and the driver returns a
\* Program only when every function of the input was lowered completely.
\* ------------------------------------------------------------------------
C20_NoPartialProgram ==
    /\ (ppc \in {"funs", "flush_end", "returned"} /\ Partial) => sink # {}
    /\ ppc = "returned" => Complete

\* the lowerer dropped the first of two functions and pushed the second, and
\* the flush after it made the driver exit
C20_Witness ==
    /\ ppc = "exit"
    /\ Len(prog) = 2
    /\ fun_idx = 3
    /\ Len(funs) = 1
    /\ funs[1].fun_id = 2
    /\ sink # {}

\* ------------------------------------------------------------------------
\* Helpers of the properties of the single constraints
\* ------------------------------------------------------------------------
\* the next step of check applies a constraint of this kind
Applying(kind) ==
    pc = "sweep" /\ idx <= Len(constraints) /\ constraints[idx].kind = kind

\* the candidates of t_1 that are candidates of t_2, in the order of t_1
Intersection(t_1, t_2) == SelectSeq(t_1, LAMBDA x : x \in Range(t_2))

\* the progress reported by the constraint being applied, seen in the flag of
\* check when no earlier constraint of the sweep has set it
Reports(progress) == ~making_progress => (making_progress' = progress)

\* ------------------------------------------------------------------------
\* C21: applying Included(a, b) to sorted candidate lists, a's not being the
\* placeholder Any, replaces a's list by the intersection of the two lists,
\* leaves b's list unchanged, and reports progress if and only if a's list
\* became strictly shorter, also when the candidates removed are at the end
\* of a's list.
\* ------------------------------------------------------------------------
C21_Included ==
    [][(Applying("Included") /\ ~StartsWithAny(type_vars[constraints[idx].a])) =>
          /\ type_vars'[constraints[idx].a] =
                 Intersection(type_vars[constraints[idx].a], type_vars[constraints[idx].b])
          /\ constraints[idx].b # constraints[idx].a =>
                 type_vars'[constraints[idx].b] = type_vars[constraints[idx].b]
          /\ Reports(Len(type_vars'[constraints[idx].a]) < Len(type_vars[constraints[idx].a]))
      ]_vars

\* the lists of both sides of the constraint about to be applied are
\* non-empty and do not start with Any
BothPlain ==
    /\ Len(type_vars[constraints[idx].a]) > 0
    /\ Len(type_vars[constraints[idx].b]) > 0
    /\ ~StartsWithAny(type_vars[constraints[idx].a])
    /\ ~StartsWithAny(type_vars[constraints[idx].b])

\* ------------------------------------------------------------------------
\* C22: applying Equality(a, b) to two non-empty sorted candidate lists,
\* neither starting with Any, replaces both lists by their intersection and
\* reports progress if and only if at least one of the two lists became
\* strictly shorter.
\* ------------------------------------------------------------------------
C22_Equality ==
    [][(Applying("Equality") /\ BothPlain) =>
          /\ type_vars'[constraints[idx].a] =
                 Intersection(type_vars[constraints[idx].a], type_vars[constraints[idx].b])
          /\ type_vars'[constraints[idx].b] = type_vars'[constraints[idx].a]
          /\ Reports(\/ Len(type_vars'[constraints[idx].a]) < Len(type_vars[constraints[idx].a])
                     \/ Len(type_vars'[constraints[idx].b]) < Len(type_vars[constraints[idx].b]))
      ]_vars

\* the first constraint of the first sweep was an Equality between two lists
\* of two candidates with one in common; both lists are now that candidate
\* and progress was reported
C22_Witness ==
    /\ pc = "sweep"
    /\ idx = 2
    /\ constraints[1].kind = "Equality"
    /\ input_vars[constraints[1].a] = <<I32, I64>>
    /\ input_vars[constraints[1].b] = <<I64, FunI32>>
    /\ type_vars[constraints[1].a] = <<I64>>
    /\ type_vars[constraints[1].b] = <<I64>>
    /\ making_progress

\* the list of the function side of the constraint about to be applied is
\* the singleton Fun(_, [r])
SingleReturn ==
    /\ Len(type_vars[constraints[idx].a]) = 1
    /\ IsFun(type_vars[constraints[idx].a][1])
    /\ Len(RetTypes(type_vars[constraints[idx].a][1])) = 1

\* ------------------------------------------------------------------------
\* C23: applying Return(fun_tv, ret_tv) when fun_tv's list is the singleton
\* Fun(_, [r]) replaces ret_tv's candidates by their intersection with [r]
\* ([r] when r is a candidate, the empty list when it is not) and reports
\* progress if and only if ret_tv's list became strictly shorter; fun_tv is
\* left unchanged. Stated for ret_tv another variable than fun_tv, its list
\* not starting with Any.
\* ------------------------------------------------------------------------
C23_Return ==
    [][(/\ Applying("Return")
        /\ SingleReturn
        /\ constraints[idx].a # constraints[idx].b
        /\ ~StartsWithAny(type_vars[constraints[idx].b])) =>
          /\ type_vars'[constraints[idx].b] =
                 Intersection(type_vars[constraints[idx].b],
                              RetTypes(type_vars[constraints[idx].a][1]))
          /\ type_vars'[constraints[idx].a] = type_vars[constraints[idx].a]
          /\ Reports(Len(type_vars'[constraints[idx].b]) < Len(type_vars[constraints[idx].b]))
      ]_vars

\* ------------------------------------------------------------------------
\* C24: whenever the application of an Equality constraint leaves one of its
\* two candidate lists empty, the checker has recorded the diagnostic of that
\* constraint ("Could not infer a type satisfying constraints", at its first
\* type variable) when check returns, whatever the other constraints of the
\* list and their order.
\* ------------------------------------------------------------------------
C24_EmptyReported ==
    pc = "done" =>
        \A i \in emptied :
            Diag("Could not infer a type satisfying constraints", constraints[i].a) \in errors

\* check has returned; the second constraint, an Equality between two
\* variables that came in with different non-empty lists, emptied them, after
\* a constraint of another kind
C24_Witness ==
    /\ pc = "done"
    /\ Len(constraints) = 2
    /\ constraints[1].kind # "Equality"
    /\ emptied = {2}
    /\ input_vars[constraints[2].a] # <<>>
    /\ input_vars[constraints[2].b] # <<>>
    /\ ~StartsWithAny(input_vars[constraints[2].a])
    /\ ~StartsWithAny(input_vars[constraints[2].b])
    /\ type_vars[constraints[2].a] = <<>>
    /\ type_vars[constraints[2].b] = <<>>

Increasing(q) == \A i, j \in DOMAIN q : i < j => q[i] < q[j]

\* ------------------------------------------------------------------------
\* C25: within each function emitted by reduce the ids of its Block, Loop and
\* If blocks strictly increase in the order in which the blocks appear in the
\* emitted statements (a block before the blocks inside it), so no two
\* blocks of a function share an id, for every nesting of while, if, && and
\* ||.
\* ------------------------------------------------------------------------
C25_IdsIncrease ==
    \A k \in DOMAIN funs :
        Increasing(<<funs[k].body.id>> \o BlockIds(funs[k].body.stmts, 1))

\* ------------------------------------------------------------------------
\* The virtual stack of the emitted statements. A height is a natural
\* number; Underflow stands for a pop from an empty stack, or for the two
\* branches of an If block that end at different heights.
\* ------------------------------------------------------------------------
Underflow == 0 - 1

\* n values are popped, then m values are pushed
PopPush(h, n, m) == IF h < n THEN Underflow ELSE h - n + m

RECURSIVE Height(_, _, _)
\* the height after the statement st executed at height h: Const and Get push
\* one value, Set and Drop pop one, Unop pops one and pushes one, Binop and
\* Relop pop two and push one, a call pops the parameters of the function
\* and pushes its return values, BrIf pops its condition, an If block pops
\* its condition and runs one of its branches, Block and Loop run their
\* statements
After(st, h) ==
    CASE st.s \in {"Const", "Get"} -> PopPush(h, 0, 1)
      [] st.s \in {"Set", "Parametric"} -> PopPush(h, 1, 0)
      [] st.s = "Unop" -> PopPush(h, 1, 1)
      [] st.s \in {"Binop", "Relop"} -> PopPush(h, 2, 1)
      [] st.s = "Call" -> PopPush(h, fun_type(st.n).params, fun_type(st.n).rets)
      [] st.s = "Control" -> IF st.op = "BrIf" THEN PopPush(h, 1, 0) ELSE h
      [] st.s = "Block" /\ st.blk.kind = "If" ->
            IF Height(st.blk.stmts, 1, PopPush(h, 1, 0))
                   = Height(st.blk.else_stmts, 1, PopPush(h, 1, 0))
            THEN Height(st.blk.stmts, 1, PopPush(h, 1, 0))
            ELSE Underflow
      [] st.s = "Block" /\ st.blk.kind # "If" -> Height(st.blk.stmts, 1, h)

\* the height after the statements of stmts from the i-th on, executed at
\* height h; Underflow once a statement has popped from an empty stack
Height(stmts, i, h) ==
    IF h = Underflow \/ i > Len(stmts) THEN h
    ELSE Height(stmts, i + 1, After(stmts[i], h))

RECURSIVE Nested(_)
\* the statements of a block, those of the nested blocks included
Nested(block) ==
    UNION {{block[i]} \cup Nested(block[i].block) \cup Nested(block[i].else_block) :
             i \in DOMAIN block}

\* ------------------------------------------------------------------------
\* C26: for every function body lowered without a diagnostic, executing the
\* emitted statements on a virtual stack never pops from an empty stack, and
\* the height is back to its starting value after the statements emitted for
\* each let, assignment, expression statement, if and while.
\* ------------------------------------------------------------------------
C26_StackHeight ==
    sink = {} =>
        \A k \in DOMAIN funs :
            Source(k).body = "Zephyr" =>
                /\ Height(funs[k].body.stmts, 1, 0) # Underflow
                /\ \A st \in Nested(Source(k).block) :
                       st.k # "ReturnStmt" =>
                           Height(reduce_stmt(st, <<>>, StateNew).stmts, 1, 0) = 0

\* reduce has gone through function j of the typed program, which is
\* `return <literal>` with a literal of this kind
ReducedLiteral(j, kind) ==
    /\ ppc \in {"funs", "panic", "flush_end", "returned", "exit"}
    /\ j \in DOMAIN prog
    /\ j < fun_idx
    /\ prog[j].body = "Zephyr"
    /\ prog[j].is_fun
    /\ Len(prog[j].block) = 1
    /\ prog[j].block[1].k = "ReturnStmt"
    /\ prog[j].block[1].has_expr
    /\ prog[j].block[1].expr.e = kind

\* reduce has pushed function j with the body stmts
Emitted(j, stmts) ==
    \E k \in DOMAIN funs : funs[k].fun_id = prog[j].fun_id /\ funs[k].body.stmts = stmts

\* ------------------------------------------------------------------------
\* C27: for every integer literal with unsigned 64-bit value v whose resolved
\* type is I32 or I64 the lowering completes without aborting and emits
\* exactly one Const of that machine type carrying v; a boolean literal
\* emits Const I32(1) for true and Const I32(0) for false; an integer literal
\* of any other resolved type makes the lowering of the function fail with
\* an internal error.
\* ------------------------------------------------------------------------
C27_Literals ==
    \A j \in DOMAIN prog :
        /\ ReducedLiteral(j, "Integer") =>
              IF prog[j].block[1].expr.t \in {"I32", "I64"}
              THEN /\ ppc # "panic"
                   /\ Emitted(j, <<Const(prog[j].block[1].expr.t, prog[j].block[1].expr.n),
                                  Return>>)
              ELSE /\ \A k \in DOMAIN funs : funs[k].fun_id # prog[j].fun_id
                   /\ sink # {}
        /\ ReducedLiteral(j, "Boolean") =>
              Emitted(j, <<Const("I32", prog[j].block[1].expr.n), Return>>)

\* ------------------------------------------------------------------------
\* check as a function of the constraint list and the type-variable store
\* ------------------------------------------------------------------------
RECURSIVE SweepAll(_, _, _)
\* `for constr in &constraints` from constraint i on, r being the store, the
\* progress flag and the diagnostics so far
SweepAll(cs, i, r) ==
    IF i > Len(cs) THEN r
    ELSE SweepAll(cs, i + 1,
                  Result(apply_constr(cs[i], r.vars).vars,
                         apply_constr(cs[i], r.vars).progress \/ r.progress,
                         r.errs \cup apply_constr(cs[i], r.vars).errs))

RECURSIVE Sweeps(_, _)
\* `while making_progress`: sweeps until one makes no progress
Sweeps(cs, r) ==
    IF r.progress THEN Sweeps(cs, SweepAll(cs, 1, Result(r.vars, FALSE, r.errs)))
    ELSE r

\* check: the type build_store puts for every type variable and the
\* diagnostics recorded; [outcome, errs]
CheckOf(cs, tv) ==
    [outcome |-> build_store(Sweeps(cs, Result(tv, TRUE, {})).vars).outcome,
     errs |-> Sweeps(cs, Result(tv, TRUE, {})).errs
              \cup build_store(Sweeps(cs, Result(tv, TRUE, {})).vars).errs]

\* the constraint lists with the constraints of cs in another order
Reorderings(cs) ==
    {[i \in DOMAIN cs |-> cs[p[i]]] :
        p \in {q \in [DOMAIN cs -> DOMAIN cs] : \A i, j \in DOMAIN cs : i # j => q[i] # q[j]}}

\* ------------------------------------------------------------------------
\* C28: for a fixed input type-variable store, the type that check assigns
\* to every type variable, and whether any diagnostic is recorded, are the
\* same for every permutation of the constraint list.
\* ------------------------------------------------------------------------
C28_OrderIndependent ==
    pc = "done" =>
        \A cs \in Reorderings(constraints) :
            /\ CheckOf(cs, input_vars).outcome = outcome
            /\ (CheckOf(cs, input_vars).errs = {}) = (errors = {})

\* check run as a function gives what the steps of check give
CheckOfAgrees ==
    pc = "done" =>
        /\ CheckOf(constraints, input_vars).outcome = outcome
        /\ CheckOf(constraints, input_vars).errs = errors

\* ------------------------------------------------------------------------
\* C29: when every store is created with a module id of its own and only add,
\* fresh_id, extend and transmute are used, every key of a store's table has
\* a module part equal to the module id of the store or to a member of its
\* set of merged modules (so that the entries of one module cannot be merged
\* into the same store twice, also when they come through another store).
\* ------------------------------------------------------------------------
C29_Provenance ==
    \A s \in StoreIds :
        stores[s].alive =>
            \A id \in Keys(stores[s].data) :
                \/ IdMod(id) = stores[s].mod_id
                \/ IdMod(id) \in stores[s].merged_mods

\* ------------------------------------------------------------------------
\* The assembly scanner of src/zephyr/src/ast/asm_scan.rs. Positions are
\* 0-based as in the source: code[i] of the source is code[i + 1] here.
\* ------------------------------------------------------------------------
MaxCode == 3              \* characters in the scanned file
RADIX == 10
Digits == {"1", "2"}      \* the characters with c.is_digit(RADIX)
Letters == {"x", "b"}     \* the characters with c.is_alphabetic()
Quote == "\""
Newline == "\n"
Chars == {"(", "{", "/", Newline, " ", Quote, "#"} \cup Digits \cup Letters

\* the scanner and the token vector it fills; panic: an index was out of
\* bounds and the thread unwinds
Scanner ==
    [code |-> code, start |-> start, current |-> current,
     stmt_ender |-> stmt_ender, tokens |-> tokens, reports |-> reports,
     panic |-> FALSE]

get_loc(self) == [pos |-> self.start, len |-> self.current - self.start]

is_at_end(self) == self.current >= Len(self.code)

\* self.code[self.current], defined when the index is in bounds
peek(self) == self.code[self.current + 1]

\* advance reads code[current] through peek: out of bounds, it panics
advance(self) ==
    IF self.panic \/ is_at_end(self)
    THEN [self EXCEPT !.panic = TRUE]
    ELSE [self EXCEPT !.current = @ + 1]

next_match(self, c) ==
    IF is_at_end(self) THEN [ok |-> FALSE, self |-> self]
    ELSE IF peek(self) # c THEN [ok |-> FALSE, self |-> self]
    ELSE [ok |-> TRUE, self |-> [self EXCEPT !.current = @ + 1]]

\* err.report(self.get_loc(), message)
scan_report(self, msg, arg) ==
    [self EXCEPT !.reports = @ \cup {[loc |-> get_loc(self), msg |-> msg, arg |-> arg]}]

add_token(self, t) ==
    [self EXCEPT !.stmt_ender = t.k \notin {"SemiColon", "LeftBrace"},
                 !.tokens = Append(@, [t |-> t, loc |-> get_loc(self)])]

\* the characters code[from..to) of the source
Slice(self, from, to) == SubSeq(self.code, from + 1, to)

digit_value(c) == IF c = "1" THEN 1 ELSE 2
ParseErr == 0 - 1
RECURSIVE radix_value(_, _)
radix_value(str, radix) ==
    IF str = <<>> THEN 0
    ELSE radix_value(SubSeq(str, 1, Len(str) - 1), radix) * radix
         + digit_value(str[Len(str)])
\* u64::from_str_radix: an empty string or a digit outside the radix is Err
from_str_radix(str, radix) ==
    IF str = <<>> \/ \E i \in DOMAIN str : digit_value(str[i]) >= radix
    THEN ParseErr
    ELSE radix_value(str, radix)

\* number: the radix prefix, read with peek without a test of is_at_end
number_radix(self) ==
    IF peek(self) = "x" THEN 16 ELSE IF peek(self) = "b" THEN 2 ELSE RADIX
number_prefix(self) ==
    IF peek(self) \in {"x", "b"}
    THEN [self EXCEPT !.current = @ + 1, !.start = self.current + 1]
    ELSE self
RECURSIVE number_digits(_)
number_digits(self) ==
    IF ~is_at_end(self) /\ peek(self) \in Digits
    THEN number_digits(advance(self))
    ELSE self
number_token(self, str_val, radix) ==
    IF from_str_radix(str_val, radix) # ParseErr
    THEN add_token(self, [k |-> "NumberLit", v |-> from_str_radix(str_val, radix)])
    ELSE scan_report(self, "Could not parse as a number", str_val)
number_parse(self, radix) ==
    number_token(self, Slice(self, self.start, self.current), radix)
number(self) ==
    IF is_at_end(self)
    THEN [self EXCEPT !.panic = TRUE]
    ELSE number_parse(number_digits(number_prefix(self)), number_radix(self))

\* string: the closing quote is consumed with advance without a test of
\* is_at_end
RECURSIVE string_chars(_)
string_chars(self) ==
    IF ~is_at_end(self) /\ peek(self) # Quote
    THEN string_chars(advance(self))
    ELSE self
string_token(self) ==
    IF self.panic THEN self
    ELSE add_token(self, [k |-> "StringLit",
                          v |-> Slice(self, self.start + 1, self.current - 1)])
string(self) == string_token(advance(string_chars(self)))

\* identifier; a keyword of the keyword table gives a keyword token, which
\* add_token treats as it treats Identifier
RECURSIVE identifier_chars(_)
identifier_chars(self) ==
    IF ~is_at_end(self) /\ peek(self) \in Letters \cup Digits
    THEN identifier_chars(advance(self))
    ELSE self
identifier_token(self) ==
    add_token(self, [k |-> "Identifier", v |-> Slice(self, self.start, self.current)])
identifier(self) == identifier_token(identifier_chars(self))

RECURSIVE comment_chars(_)
comment_chars(self) ==
    IF ~is_at_end(self) /\ peek(self) # Newline
    THEN comment_chars(advance(self))
    ELSE self

newline_token(self) ==
    [(IF self.stmt_ender THEN add_token(self, [k |-> "SemiColon"]) ELSE self)
        EXCEPT !.stmt_ender = FALSE]

\* the match of scan_token on the character c that advance returned
scan_char(self, c) ==
    CASE c = "(" -> add_token(self, [k |-> "LeftPar"])
      [] c = "{" -> add_token(self, [k |-> "LeftBrace"])
      [] c = "/" -> IF next_match(self, "/").ok
                    THEN comment_chars(next_match(self, "/").self)
                    ELSE scan_report(self, "Unexpected character", <<"/">>)
      [] c = Newline -> newline_token(self)
      [] c = " " -> self
      [] c \in Digits -> number(self)
      [] c \in Letters -> identifier(self)
      [] c = Quote -> string(self)
      [] OTHER -> scan_report(self, "Unexpected character", <<c>>)

scan_token(self) == scan_char(advance(self), peek(self))

\* Scanner::new on a file of at most MaxCode characters
ScanInit ==
    /\ code \in SeqsUpTo(Chars, MaxCode)
    /\ start = 0
    /\ current = 0
    /\ stmt_ender = FALSE
    /\ tokens = <<>>
    /\ reports = {}
    /\ spc = "loop"

\* one iteration of the loop of scan
ScanToken ==
    /\ spc = "loop"
    /\ ~is_at_end(Scanner)
    /\ \E r \in {scan_token(Scanner)} :
        /\ start' = IF r.panic THEN r.start ELSE r.current
        /\ current' = r.current
        /\ stmt_ender' = r.stmt_ender
        /\ tokens' = r.tokens
        /\ reports' = r.reports
        /\ spc' = IF r.panic THEN "panic" ELSE "loop"
    /\ UNCHANGED code
    /\ UNCHANGED <<tcvars, stvars, lwvars>>

\* the exit of the loop: the EOF token, and scan returns
ScanEnd ==
    /\ spc = "loop"
    /\ is_at_end(Scanner)
    /\ \E r \in {add_token(Scanner, [k |-> "EOF"])} :
        /\ stmt_ender' = r.stmt_ender
        /\ tokens' = r.tokens
    /\ spc' = "done"
    /\ UNCHANGED <<code, start, current, reports>>
    /\ UNCHANGED <<tcvars, stvars, lwvars>>

ScanNext == ScanToken \/ ScanEnd
ScanStart == ScanInit /\ CheckIdle /\ StoreIdle /\ PipeIdle
\* scan is a sequential loop that keeps executing until it returns
ScanSpec == ScanStart /\ [][ScanNext]_vars /\ WF_vars(ScanNext)

\* ------------------------------------------------------------------------
\* C30: on every input, scan terminates without reading past the end of the
\* input (also when the input ends in a digit or inside an unterminated
\* string literal) and the token list it returns ends with exactly one EOF
\* token.
\* ------------------------------------------------------------------------
OneEOF(toks) ==
    /\ toks # <<>>
    /\ toks[Len(toks)].t.k = "EOF"
    /\ \A i \in 1..(Len(toks) - 1) : toks[i].t.k # "EOF"

C30_ScanReturns == <>(spc = "done" /\ OneEOF(tokens))

====
